---------------------------- MODULE Spec2Model ----------------------------
(***************************************************************************)
(* A model of the result-interpretation engine of the Little Alchemy 2     *)
(* finder front end: the recipe extractor, the bidirectional classifier,   *)
(* the DFS trace builder and the stream sessions of the bidirectional and  *)
(* DFS pages (sockets, message handlers, timers, recipe navigation).       *)
(*                                                                         *)
(* A RecipeNode is a record [element, recipes, ...].  A string field the    *)
(* JSON payload does not carry has the value Undefined; an object or array *)
(* field is a sequence of length 0 (absent, null) or 1 (Some(value)).  A   *)
(* node's recipes = <<>> is the empty list; the tree functions below treat  *)
(* a node without the field in the same way.                               *)
(***************************************************************************)
EXTENDS Integers, Sequences, FiniteSets, TLC

VARIABLES
    \* ---- inputs and outputs of the pure functions
    pc,                 \* position of the pure-function specifications
    inTree,             \* the RecipeNode / payload handed to the function
    inTarget,           \* the targetElement prop the classifier closes over
    outRecipes,         \* result of extractRecipes
    outTrace,           \* dfsNodes / elementTracker built by traverseDFS
    outState,           \* BidirectionalState built by processRecipeData
    outGraph,           \* nodes and links built by renderBidirectionalVisualization
                        \* or by createDFSLayout
    viewport,           \* clientWidth / clientHeight of svgRef.current
    \* ---- props and transport shared by the pages
    targetElement, mode,
    sockets,            \* every WebSocket created so far, by session
    socketRef,          \* socketRef.current: a session number, or 0 for null
    timers,             \* pending setTimeout callbacks, in scheduling order
    \* ---- state shared by the pages (useState)
    status, loading, progress, resultText, stats,
    \* ---- BidirectionalTreePage state
    forwardElements, backwardElements, meetingPoints, elementConnections,
    multipleRecipes, currentRecipeIndex, currentRecipeData,
    hasBidirectionalData,
    \* ---- DFSTreePage state
    dfsNodes, connections, visitedNodes, currentPath,
    multipleResults, currentResultIndex, currentRecipe,
    \* ---- StandardTreePage state; its multipleRecipes and
    \* currentRecipeIndex are the variables of that name above
    treeData, processingElements

pureVars  == <<pc, inTree, inTarget, outRecipes, outTrace, outState,
               outGraph, viewport>>
propVars  == <<targetElement, mode>>
netVars   == <<sockets, socketRef, timers>>
uiVars    == <<status, loading, progress, resultText, stats>>
bidirVars == <<forwardElements, backwardElements, meetingPoints,
               elementConnections, multipleRecipes, currentRecipeIndex,
               currentRecipeData, hasBidirectionalData>>
dfsVars   == <<dfsNodes, connections, visitedNodes, currentPath,
               multipleResults, currentResultIndex, currentRecipe>>
stdVars   == <<treeData, processingElements>>
vars      == <<pureVars, propVars, netVars, uiVars, bidirVars, dfsVars,
               stdVars>>

---------------------------------------------------------------------------
(* Values                                                                  *)

Null      == "null"
Undefined == "undefined"

\* JavaScript truthiness of a string-valued field
Truthy(v) == v # Null /\ v # Undefined /\ v # ""

BaseElements == {"Water", "Fire", "Earth", "Air"}

\* the graph before anything is drawn
NoGraph == [nodes |-> {}, links |-> <<>>]

\* a container that has not been measured: clientWidth = clientHeight = 0
Unmeasured == [width |-> 0, height |-> 0]

\* optional object-valued fields
Absent     == <<>>
Some(v)    == <<v>>
Present(o) == Len(o) > 0
Get(o)     == o[1]

\* A plain RecipeNode: no explicit bidirectional fields
Node(e, kids) ==
    [element |-> e, recipes |-> kids,
     forwardVisited |-> Absent, ForwardVisited |-> Absent,
     backwardVisited |-> Absent, BackwardVisited |-> Absent,
     meetingPoints |-> Absent, MeetingPoints |-> Absent]

Leaf(e) == Node(e, <<>>)

\* a null entry of a recipes array: reading a property of it throws
NullNode == Node(Null, <<>>)
IsNull(node) == node.element = Null

---------------------------------------------------------------------------
(* Bounded inputs                                                          *)

MaxNodes == 5

TreeElems == {"Mud", "Clay", "Brick"}

RECURSIVE TreesOfSize(_, _), ForestsOfSize(_, _)
\* every ordered tree over E with exactly n nodes
TreesOfSize(E, n) ==
    IF n = 0 THEN {}
    ELSE { Node(e, f) : e \in E, f \in ForestsOfSize(E, n - 1) }
\* every sequence of trees over E with n nodes in total
ForestsOfSize(E, n) ==
    IF n = 0 THEN { <<>> }
    ELSE UNION { { <<t>> \o f : t \in TreesOfSize(E, k),
                                f \in ForestsOfSize(E, n - k) } : k \in 1..n }

Trees(E, n) == UNION { TreesOfSize(E, k) : k \in 1..n }

---------------------------------------------------------------------------
(* Sequence helpers                                                        *)

Range(s) == { s[i] : i \in 1..Len(s) }

RECURSIVE SeqFilterIdx(_, _, _)
\* s.filter(...) : the subsequence of s at the indices in keep
SeqFilterIdx(s, keep, i) ==
    IF i > Len(s) THEN <<>>
    ELSE (IF i \in keep THEN <<s[i]>> ELSE <<>>) \o SeqFilterIdx(s, keep, i + 1)

\* s with the entry at index i removed
RemoveAt(s, i) == SubSeq(s, 1, i - 1) \o SubSeq(s, i + 1, Len(s))

\* Array.prototype.find: the least index of a set of matching indices, or 0
FirstIdx(matching) ==
    IF matching = {} THEN 0
    ELSE CHOOSE i \in matching : \A j \in matching : i <= j

---------------------------------------------------------------------------
(* Recipe extractor: extractRecipes (RecipeDisplay)                        *)

\* the "not yet seen" test that never finds anything seen
NeverSeen(visited, element) == FALSE

\* visited.has(node.element)
AlreadySeen(visited, element) == element \in visited

\* the elements of the children, last child first
IngredientsReversed(node) ==
    [i \in 1..Len(node.recipes) |->
        node.recipes[Len(node.recipes) + 1 - i].element]

\* node.recipes.map((r) => r.element)
IngredientsOf(node) == [i \in 1..Len(node.recipes) |-> node.recipes[i].element]

RECURSIVE extractRec(_, _), extractChildren(_, _, _)
\* one call of extractRecipes(node, visited): the recipes it returns and the
\* visited set as the call leaves it (the set is shared by the whole traversal)
extractRec(node, visited) ==
    IF Len(node.recipes) = 0
    THEN [recipes |-> <<>>, visited |-> visited]
    ELSE LET below == extractChildren(node.recipes, 1,
                                      [recipes |-> <<>>, visited |-> visited])
         IN  IF ~AlreadySeen(below.visited, node.element)
             THEN [recipes |-> Append(below.recipes,
                                      [result |-> node.element,
                                       ingredients |-> IngredientsOf(node)]),
                   visited |-> below.visited \cup {node.element}]
             ELSE below
\* the loop over node.recipes, from child i on
extractChildren(kids, i, acc) ==
    IF i > Len(kids) THEN acc
    ELSE LET r == extractRec(kids[i], acc.visited)
         IN  extractChildren(kids, i + 1,
                             [recipes |-> acc.recipes \o r.recipes,
                              visited |-> r.visited])

extractRecipes(node) == extractRec(node, {}).recipes

---------------------------------------------------------------------------
(* DFS trace builder: traverseDFS inside processRecipeTree (DFSTreePage)   *)

\* `${node.element}_${depth}_${parent || "root"}`
nodeKey(element, depth, parent) ==
    element \o "_" \o ToString(depth) \o "_" \o
        (IF Truthy(parent) THEN parent ELSE "root")

\* an element key that leaves the depth out
elementKeyAnyDepth(element, depth) == element

\* `${node.element}_${depth}`
elementKey(element, depth) == element \o "_" \o ToString(depth)

\* `${element}_${depth}_${Date.now()}_${Math.random()}`: the clock and the
\* random number are a stamp that no other id of the page carries
MakeId(element, depth, stamp) == <<element, depth, stamp>>

\* an elementTracker lookup that never finds the key
TrackerNeverHas(tracker, key) == FALSE

\* elementTracker.has(elementKey)
TrackerHas(tracker, key) == key \in DOMAIN tracker

EmptyTrace == [nodes |-> <<>>, tracker |-> <<>>, stamp |-> 0]

RECURSIVE traverseDFS(_, _, _, _, _), traverseChildren(_, _, _, _, _, _)
RECURSIVE traverseChildrenLastFirst(_, _, _, _, _, _)
\* a forEach that visits the last child first
traverseChildrenLastFirst(kids, i, depth, parent, visited, acc) ==
    IF i > Len(kids) THEN acc
    ELSE traverseChildrenLastFirst(
             kids, i + 1, depth, parent, visited,
             traverseDFS(kids[Len(kids) + 1 - i], depth, parent, visited, acc))

\* one call traverseDFS(node, depth, parent, visited); acc holds the dfsNodes
\* array and the elementTracker map that the calls share
traverseDFS(node, depth, parent, visited, acc) ==
    IF ~Truthy(node.element) THEN acc
    ELSE
    LET nk == nodeKey(node.element, depth, parent) IN
    IF nk \in visited THEN acc
    ELSE
    LET visited2 == visited \cup {nk}
        stamp    == acc.stamp + 1
        nodeData == [element |-> node.element, depth |-> depth,
                     parent |-> parent,
                     id |-> MakeId(node.element, depth, stamp)]
        ek       == elementKey(node.element, depth)
    IN
    IF TrackerHas(acc.tracker, ek)
    THEN [acc EXCEPT
            !.stamp = stamp,
            !.tracker = [k \in DOMAIN acc.tracker |->
                IF k = ek /\ Truthy(parent)
                THEN [acc.tracker[k] EXCEPT !.parents = @ \cup {parent}]
                ELSE acc.tracker[k]]]
    ELSE
    LET acc2 == [nodes |-> Append(acc.nodes, nodeData),
                 tracker |-> (ek :> [node |-> nodeData,
                                     parents |-> IF Truthy(parent)
                                                 THEN {parent} ELSE {}])
                             @@ acc.tracker,
                 stamp |-> stamp]
    IN  traverseChildren(node.recipes, 1, depth + 1, node.element,
                         visited2, acc2)
\* node.recipes.forEach(...): every child gets its own copy of visited
traverseChildren(kids, i, depth, parent, visited, acc) ==
    IF i > Len(kids) THEN acc
    ELSE traverseChildren(kids, i + 1, depth, parent, visited,
                          traverseDFS(kids[i], depth, parent, visited, acc))

\* traverseDFS(recipeTree, 0, null)
buildTrace(recipeTree) == traverseDFS(recipeTree, 0, Null, {}, EmptyTrace)

---------------------------------------------------------------------------
(* Bidirectional classifier (BidirectionalTreePage)                        *)

\* an explicit payload: forwardVisited / backwardVisited map an element to
\* the Recipe list of its entry (<<>> when the entry carries no Recipe)
Explicit(e, kids, fv, bv, mp) ==
    [Node(e, kids) EXCEPT !.forwardVisited = fv, !.backwardVisited = bv,
                          !.meetingPoints = mp]
\* the same payload written with the capitalised field names
ExplicitUpper(e, kids, fv, bv, mp) ==
    [Node(e, kids) EXCEPT !.ForwardVisited = fv, !.BackwardVisited = bv,
                          !.MeetingPoints = mp]

\* a || fallback: the second name is never looked at
OrElseFirst(a, b, fallback) == IF Present(a) THEN Get(a) ELSE fallback

\* a || b || fallback, for object-valued fields
OrElse(a, b, fallback) ==
    IF Present(a) THEN Get(a) ELSE IF Present(b) THEN Get(b) ELSE fallback

\* data.forwardVisited || data.ForwardVisited || data.backwardVisited ||
\* data.BackwardVisited
HasExplicitData(data) ==
    \/ Present(data.forwardVisited) \/ Present(data.ForwardVisited)
    \/ Present(data.backwardVisited) \/ Present(data.BackwardVisited)

RECURSIVE findPathToTarget(_, _, _), findPathInChildren(_, _, _, _)
findPathToTarget(node, target, pathSoFar) ==
    IF ~Truthy(node.element) THEN <<>>
    ELSE IF node.element = target THEN Append(pathSoFar, node.element)
    ELSE IF Len(node.recipes) = 0 THEN <<>>
    ELSE findPathInChildren(node.recipes, 1, target,
                            Append(pathSoFar, node.element))
\* for (const child of node.recipes): the first child with a path wins
findPathInChildren(kids, i, target, pathSoFar) ==
    IF i > Len(kids) THEN <<>>
    ELSE LET path == findPathToTarget(kids[i], target, pathSoFar)
         IN  IF Len(path) > 0 THEN path
             ELSE findPathInChildren(kids, i + 1, target, pathSoFar)

\* a filter that keeps no ingredient
NoIngredients(node) == <<>>

\* currentNode.recipes.filter((r) => r && r.element).map((r) => r.element)
ValidIngredients(node) ==
    LET keep == { i \in 1..Len(node.recipes) : Truthy(node.recipes[i].element) }
        kept == SeqFilterIdx(node.recipes, keep, 1)
    IN  [i \in 1..Len(kept) |-> kept[i].element]

RECURSIVE processNode(_, _, _, _), processIngredients(_, _, _, _, _, _)
\* processNode(currentNode, pathToTarget) of buildBidirectionalFromRecipeTree;
\* acc holds the sets and the connection map the calls mutate, and threw
\* tells that a TypeError has ended the traversal
processNode(currentNode, pathToTarget, target, acc) ==
    IF ~Truthy(currentNode.element) THEN acc
    ELSE
    LET e  == currentNode.element
        a1 == IF e \in BaseElements
              THEN [acc EXCEPT !.forward = @ \cup {e}] ELSE acc
        a2 == IF e = target
              THEN [a1 EXCEPT !.backward = @ \cup {e}] ELSE a1
    IN
    IF Len(currentNode.recipes) > 0
    THEN LET ingredients == ValidIngredients(currentNode) IN
         IF Len(ingredients) > 0
         THEN LET a3 == [a2 EXCEPT !.connections = (e :> ingredients) @@ @]
                  a4 == IF pathToTarget \/ e = target
                        THEN [a3 EXCEPT !.backward =
                                  @ \cup {e} \cup Range(ingredients)]
                        ELSE [a3 EXCEPT !.forward =
                                  @ \cup {e} \cup Range(ingredients)]
              IN  processIngredients(currentNode.recipes, 1, ingredients,
                                     pathToTarget, target, a4)
         ELSE a2
    ELSE IF e = target THEN [a2 EXCEPT !.backward = @ \cup {e}]
    ELSE IF e \in BaseElements THEN [a2 EXCEPT !.forward = @ \cup {e}]
    ELSE a2
\* currentNode.recipes.forEach((ingredient) => ...)
processIngredients(kids, i, ingredients, pathToTarget, target, acc) ==
    IF i > Len(kids) \/ acc.threw THEN acc
    ELSE IF pathToTarget /\ IsNull(kids[i])
    THEN [acc EXCEPT !.threw = TRUE]     \* ingredient.element of null
    ELSE LET ingredientOnPath ==
                 /\ pathToTarget
                 /\ kids[i].element \in Range(ingredients)
                 /\ Len(findPathToTarget(kids[i], target, <<>>)) > 0
         IN  processIngredients(kids, i + 1, ingredients, pathToTarget, target,
                 processNode(kids[i], ingredientOnPath, target, acc))

buildBidirectionalFromRecipeTree(node, target, acc) ==
    IF ~Truthy(node.element) THEN acc
    ELSE LET path     == findPathToTarget(node, target, <<>>)
             isInPath == Len(path) > 0
         IN  processNode(node, isInPath, target, acc)

\* the entries of a visited map that carry a non-empty Recipe
RecipesOf(visited) ==
    [e \in { k \in DOMAIN visited : Len(visited[k]) > 0 } |-> visited[e]]

\* "Find meeting points": every element of forward that backward has is added
\* to the meeting points collected so far
FindMeetingPoints(collected, forward, backward) ==
    collected \cup { e \in forward : e \in backward }

\* the sets processRecipeData starts from
StartOf(target) ==
    [forward |-> BaseElements, backward |-> {target}, connections |-> <<>>,
     threw |-> FALSE]

\* processRecipeData(data) ends with a TypeError before it sets the state
processRecipeDataThrows(data, target) ==
    /\ Truthy(data.element) /\ ~HasExplicitData(data)
    /\ buildBidirectionalFromRecipeTree(data, target, StartOf(target)).threw

\* processRecipeData(data) in a closure whose targetElement is target: the
\* state it sets, or Absent when it ends without setting any
processRecipeData(data, target) ==
    IF ~Truthy(data.element) \/ processRecipeDataThrows(data, target)
    THEN Absent
    ELSE
    LET start == StartOf(target)
    IN
    IF HasExplicitData(data)
    THEN LET forwardData  == OrElse(data.forwardVisited, data.ForwardVisited, <<>>)
             backwardData == OrElse(data.backwardVisited, data.BackwardVisited, <<>>)
             meetingArray == OrElse(data.meetingPoints, data.MeetingPoints, <<>>)
             forward      == start.forward \cup DOMAIN forwardData
             backward     == start.backward \cup DOMAIN backwardData
         IN  Some([forward |-> forward,
                   backward |-> backward,
                   meeting |-> FindMeetingPoints(Range(meetingArray),
                                                 forward, backward),
                   connections |-> RecipesOf(backwardData)
                                       @@ RecipesOf(forwardData),
                   hasBidirectionalData |-> TRUE])
    ELSE LET built == buildBidirectionalFromRecipeTree(data, target, start)
         IN  Some([forward |-> built.forward,
                   backward |-> built.backward,
                   meeting |-> FindMeetingPoints({}, built.forward,
                                                 built.backward),
                   connections |-> built.connections,
                   hasBidirectionalData |-> FALSE])

---------------------------------------------------------------------------
(* Specification of the extractor as a function of its input tree          *)

\* useState initial values of the state the pages share, and no socket yet
UiIdle ==
    /\ sockets = <<>> /\ socketRef = 0 /\ timers = <<>>
    /\ status = "Initializing..." /\ loading = FALSE /\ progress = 0
    /\ resultText = <<"No results yet.">> /\ stats = Absent

\* useState initial values of BidirectionalTreePage
BidirIdle ==
    /\ forwardElements = BaseElements /\ backwardElements = {targetElement}
    /\ meetingPoints = {} /\ elementConnections = <<>>
    /\ multipleRecipes = <<>> /\ currentRecipeIndex = 0
    /\ currentRecipeData = Absent /\ hasBidirectionalData = FALSE

\* useState initial values of DFSTreePage
DfsIdle ==
    /\ dfsNodes = <<>> /\ connections = <<>> /\ visitedNodes = {}
    /\ currentPath = <<>> /\ multipleResults = <<>>
    /\ currentResultIndex = 0 /\ currentRecipe = Absent

\* useState initial values of StandardTreePage
StdIdle == treeData = Absent /\ processingElements = <<>>

\* no page is mounted
PureIdle ==
    /\ targetElement = "" /\ mode = "shortest"
    /\ UiIdle /\ BidirIdle /\ DfsIdle /\ StdIdle

pageVars == <<propVars, netVars, uiVars, bidirVars, dfsVars, stdVars>>

InitExtract ==
    /\ pc = "input"
    /\ inTree \in Trees(TreeElems, MaxNodes)
    /\ inTarget = ""
    /\ outRecipes = <<>> /\ outTrace = EmptyTrace /\ outState = Absent
    /\ outGraph = NoGraph /\ viewport = Unmeasured
    /\ PureIdle

\* RecipeDisplay: const allRecipes = extractRecipes(data)
Extract ==
    /\ pc = "input"
    /\ outRecipes' = extractRecipes(inTree)
    /\ pc' = "extracted"
    /\ UNCHANGED <<inTree, inTarget, outTrace, outState, outGraph,
                 viewport, pageVars>>

NextExtract == Extract

SpecExtract == InitExtract /\ [][NextExtract]_vars

\* C4: the list returned by extractRecipes has no two entries with the same
\* result value.
C4_NoDuplicateResults ==
    pc = "extracted" =>
        \A i, j \in 1..Len(outRecipes) :
            outRecipes[i].result = outRecipes[j].result => i = j

\* the nodes of a tree, as the set of its subtrees
RECURSIVE SubTrees(_)
SubTrees(t) == {t} \cup UNION { SubTrees(t.recipes[i]) : i \in 1..Len(t.recipes) }

NonLeafElements(t) == { s.element : s \in { u \in SubTrees(t) : Len(u.recipes) > 0 } }

\* C4 witness: an element is a non-leaf node at two places of the tree, at
\* different depths, and the extractor has run.
C4_Witness ==
    /\ pc = "extracted"
    /\ \E s \in SubTrees(inTree) :
          /\ Len(s.recipes) > 0
          /\ \E i \in 1..Len(s.recipes) :
                \E u \in SubTrees(s.recipes[i]) :
                    u.element = s.element /\ Len(u.recipes) > 0
    /\ Len(outRecipes) >= 2

\* C5: for every entry R and every ingredient i of R that is the result of
\* another entry, the entry with result i is placed before R.
C5_BottomUp ==
    pc = "extracted" =>
        \A r \in 1..Len(outRecipes) :
            \A k \in 1..Len(outRecipes[r].ingredients) :
                \A q \in 1..Len(outRecipes) :
                    (q # r /\ outRecipes[q].result = outRecipes[r].ingredients[k])
                        => q < r

---------------------------------------------------------------------------
(* Specification of the trace builder as a function of its input tree      *)

InitTrace ==
    /\ pc = "input"
    /\ inTree \in Trees(TreeElems, MaxNodes)
    /\ inTarget = ""
    /\ outRecipes = <<>> /\ outTrace = EmptyTrace /\ outState = Absent
    /\ outGraph = NoGraph /\ viewport = Unmeasured
    /\ PureIdle

\* processRecipeTree: traverseDFS(recipeTree, 0, null)
Trace ==
    /\ pc = "input"
    /\ outTrace' = buildTrace(inTree)
    /\ pc' = "traced"
    /\ UNCHANGED <<inTree, inTarget, outRecipes, outState, outGraph,
                 viewport, pageVars>>

NextTrace == Trace

SpecTrace == InitTrace /\ [][NextTrace]_vars

\* the children of the root that are the first child with their element:
\* the depth-1 nodes whose ingredients the traversal visits
FirstDepth1(t) ==
    { i \in 1..Len(t.recipes) :
        \A j \in 1..(i - 1) : t.recipes[j].element # t.recipes[i].element }

\* the parents (depth-1 elements) under which element e occurs at depth 2,
\* as indices of root children, in pre-order
Depth2Parents(t, e) ==
    { i \in FirstDepth1(t) :
        \E k \in 1..Len(t.recipes[i].recipes) :
            t.recipes[i].recipes[k].element = e }

---------------------------------------------------------------------------
(* Specification of the classifier as a function of payload and target     *)

MaxClassifyNodes == 5

ClassifyElems == {"Water", "Mud", "Brick"}

ClassifyTargets == {"Mud", "Water"}

\* the visited maps of the explicit payloads: every map over a subset of
\* VisitedKeys whose entries carry no Recipe or the Recipe [Water, Earth]
VisitedKeys == {"Water", "Wood"}

VisitedMaps ==
    UNION { [D -> { <<>>, <<"Water", "Earth">> }] : D \in SUBSET VisitedKeys }

OptionalMaps == { Absent } \cup { Some(m) : m \in VisitedMaps }

MeetingLists == { Absent, Some(<<>>), Some(<<"Wood">>), Some(<<"Steam">>) }

ExplicitPayloads ==
    { p \in { Explicit("Wood", <<>>, fv, bv, mp) :
                 fv \in OptionalMaps, bv \in OptionalMaps, mp \in MeetingLists }
         \cup { ExplicitUpper("Wood", <<>>, fv, bv, mp) :
                 fv \in OptionalMaps, bv \in OptionalMaps, mp \in MeetingLists }
       : HasExplicitData(p) }

ClassifyInputs == ExplicitPayloads \cup Trees(ClassifyElems, MaxClassifyNodes)

InitClassify ==
    /\ pc = "input"
    /\ inTree \in ClassifyInputs
    /\ inTarget \in ClassifyTargets \cup {"Wood"}
    /\ outRecipes = <<>> /\ outTrace = EmptyTrace /\ outState = Absent
    /\ outGraph = NoGraph /\ viewport = Unmeasured
    /\ PureIdle

\* processRecipeData(data) and the four setters at its end
Classify ==
    /\ pc = "input"
    /\ outState' = processRecipeData(inTree, inTarget)
    /\ pc' = IF processRecipeDataThrows(inTree, inTarget)
             THEN "threw" ELSE "classified"
    /\ UNCHANGED <<inTree, inTarget, outRecipes, outTrace, outGraph,
                 viewport, pageVars>>

NextClassify == Classify

SpecClassify == InitClassify /\ [][NextClassify]_vars

\* C3: after processRecipeData has classified a valid payload, the meeting
\* set equals forward \cap backward exactly.
C3_MeetingIsIntersection ==
    (pc = "classified" /\ Present(outState)) =>
        Get(outState).meeting = Get(outState).forward \cap Get(outState).backward

RECURSIVE HasTarget(_, _)
\* some node of the tree has the element target
HasTarget(node, target) ==
    \/ node.element = target
    \/ \E i \in 1..Len(node.recipes) : HasTarget(node.recipes[i], target)

RECURSIVE RoleElements(_, _, _, _)
\* the elements of the nodes of a tree that have the role wanted, when its
\* root has the role given: "path" for a node on the first root-to-target
\* path in ingredient order, "ingredient" for a direct ingredient of such a
\* node that is not on the path itself, "other" for every other node
RoleElements(node, target, role, wanted) ==
    LET kids == node.recipes
        first == FirstIdx({ i \in 1..Len(kids) : HasTarget(kids[i], target) })
        RoleOfChild(i) ==
            IF role = "path"
            THEN (IF node.element # target /\ i = first
                  THEN "path" ELSE "ingredient")
            ELSE "other"
    IN  (IF role = wanted THEN {node.element} ELSE {})
        \cup UNION { RoleElements(kids[i], target, RoleOfChild(i), wanted) :
                        i \in 1..Len(kids) }

RootRole(node, target) == IF HasTarget(node, target) THEN "path" ELSE "other"

\* C13: in implicit mode the classifier takes the first root-to-target path
\* in depth-first ingredient order: backward holds the target, the elements
\* of the nodes on that path and of their direct ingredients and nothing
\* else, and forward holds the base elements and the element of every other
\* node of the tree.
C13_FirstPathClassification ==
    (pc = "classified" /\ ~HasExplicitData(inTree)) =>
        LET role == RootRole(inTree, inTarget)
            st   == Get(outState)
        IN  /\ st.backward = {inTarget}
                   \cup RoleElements(inTree, inTarget, role, "path")
                   \cup RoleElements(inTree, inTarget, role, "ingredient")
            /\ BaseElements \cup RoleElements(inTree, inTarget, role, "other")
                   \subseteq st.forward

\* C14: after implicit classification of a well-formed tree, connections
\* has an entry for the element of every non-leaf node and for no other
\* element, and connections[e] is the ordered ingredient list of a node with
\* element e.
C14_ConnectionsOfNonLeafNodes ==
    (pc = "classified" /\ ~HasExplicitData(inTree)) =>
        LET conn == Get(outState).connections IN
        /\ DOMAIN conn = NonLeafElements(inTree)
        /\ \A e \in DOMAIN conn :
              \E s \in SubTrees(inTree) :
                  /\ s.element = e /\ Len(s.recipes) > 0
                  /\ conn[e] = IngredientsOf(s)

\* C14 witness: a classified plain tree with a non-leaf node in forward, a
\* non-leaf node in backward only and an element that is only a leaf.
C14_Witness ==
    /\ pc = "classified" /\ ~HasExplicitData(inTree)
    /\ \E e \in NonLeafElements(inTree) : e \in Get(outState).forward
    /\ \E e \in NonLeafElements(inTree) :
          e \in Get(outState).backward \ Get(outState).forward
    /\ \E s \in SubTrees(inTree) : s.element \notin NonLeafElements(inTree)

---------------------------------------------------------------------------
(* Transport and timers of a page                                          *)

MaxSessions == 2      \* searches started on one mounted page
MaxMessages == 2      \* messages the server sends on one socket
MaxTimers   == 2      \* setTimeout callbacks pending at a time

Modes == {"shortest", "multiple"}

\* new WebSocket(...): the effect run that creates it closes over the props
\* and over the currentRecipeIndex of its render; sent counts the search
\* requests sent on the socket, log lists the types of the messages delivered
\* on it and last is the latest of these messages
NewSocket(t, md, idx) ==
    [readyState |-> "CONNECTING", target |-> t, mode |-> md, index |-> idx,
     sent |-> 0, log |-> <<>>, last |-> Absent]

\* the effect's cleanup: only an OPEN socket is closed
CleanupSockets(socks, ref) ==
    IF ref # 0 /\ socks[ref].readyState = "OPEN"
    THEN [socks EXCEPT ![ref].readyState = "CLOSING"]
    ELSE socks

\* setTimeout(fn, delay): the callback joins the pending ones
Schedule(tms, delay, fn, data, sid, target) ==
    Append(tms, [delay |-> delay, fn |-> fn, data |-> data, sid |-> sid,
                 target |-> target])

\* a pending callback may run when no callback scheduled before it is due at
\* the same time or earlier
CanFire(i) == \A j \in 1..(i - 1) : timers[j].delay > timers[i].delay

\* setStats({nodeCount, stepCount, elapsedTimeMs || 0}) of a message whose
\* stats carry the same number for both counts and no elapsed time
StatsOf(msg) ==
    Some([nodeCount |-> msg.nodeCount, stepCount |-> msg.nodeCount,
          elapsedTimeMs |-> 0])

pageIdle == pc = "page" /\ inTree = Leaf("") /\ inTarget = ""
            /\ outRecipes = <<>> /\ outTrace = EmptyTrace /\ outState = Absent
            /\ outGraph = NoGraph /\ viewport = Unmeasured

---------------------------------------------------------------------------
(* BidirectionalTreePage                                                   *)

PROGRESS_DELAY == 300     \* setTimeout(..., 300) of the progress branch
NAVIGATION_DELAY == 10    \* setTimeout(..., 10) of the recipe navigation

BidirTargets == {"Mud", "Wood"}

Recipe1 == Node("Mud", <<Leaf("Water"), Leaf("Earth")>>)
Recipe2 == Node("Mud", <<Leaf("Clay"), Leaf("Water")>>)

\* { recipes: [...], recipeCount: n }: the path of a multiple-recipe answer
RecipeList(rs) == Node(Undefined, rs)

ExplicitResult ==
    Explicit("Wood", <<>>,
             Some(("Water" :> <<>>) @@ ("Wood" :> <<"Water", "Earth">>)),
             Some("Wood" :> <<>>), Absent)
ExplicitProgress ==
    Explicit("Wood", <<>>, Some("Steam" :> <<"Water", "Fire">>),
             Some("Wood" :> <<>>), Absent)

BidirProgressPaths == { Some(ExplicitProgress) }
BidirResultPaths ==
    { Some(ExplicitResult), Some(RecipeList(<<Recipe1, Recipe2>>)),
      Some(RecipeList(<<>>)) }

BidirMessages ==
    { [type |-> "progress", element |-> "Clay", path |-> pth, nodeCount |-> 1]
        : pth \in BidirProgressPaths }
    \cup { [type |-> "result", element |-> "", path |-> pth, nodeCount |-> 2]
        : pth \in BidirResultPaths }
    \cup { [type |-> "error", element |-> "", nodeCount |-> 0,
            path |-> Some([error |-> "Element not found"])] }

BidirState ==
    [forward |-> forwardElements, backward |-> backwardElements,
     meeting |-> meetingPoints, connections |-> elementConnections,
     multipleRecipes |-> multipleRecipes,
     currentRecipeIndex |-> currentRecipeIndex,
     currentRecipeData |-> currentRecipeData,
     hasBidirectionalData |-> hasBidirectionalData]

SetBidirState(st) ==
    /\ forwardElements' = st.forward
    /\ backwardElements' = st.backward
    /\ meetingPoints' = st.meeting
    /\ elementConnections' = st.connections
    /\ multipleRecipes' = st.multipleRecipes
    /\ currentRecipeIndex' = st.currentRecipeIndex
    /\ currentRecipeData' = st.currentRecipeData
    /\ hasBidirectionalData' = st.hasBidirectionalData

\* the reset of the visualization data: the effect and the recipe navigation
ResetClassification(st, target) ==
    [st EXCEPT !.forward = BaseElements, !.backward = {target},
               !.meeting = {}, !.connections = <<>>]

\* the state the effect sets before it opens the socket
BidirReset(target) ==
    [forward |-> BaseElements, backward |-> {target}, meeting |-> {},
     connections |-> <<>>, multipleRecipes |-> <<>>, currentRecipeIndex |-> 0,
     currentRecipeData |-> Absent, hasBidirectionalData |-> FALSE]

\* processRecipeData(data) run on state st
ApplyRecipeData(st, data, target) ==
    LET r == processRecipeData(data, target) IN
    IF Present(r)
    THEN [st EXCEPT !.forward = Get(r).forward,
                    !.backward = Get(r).backward,
                    !.meeting = Get(r).meeting,
                    !.connections = Get(r).connections,
                    !.hasBidirectionalData = Get(r).hasBidirectionalData]
    ELSE IF processRecipeDataThrows(data, target)
    THEN [st EXCEPT !.hasBidirectionalData = FALSE]
    ELSE st

\* Absent for the "Invalid data format" return
extractBidirectionalDataFromServerResponse(data) ==
    IF Len(data.recipes) > 0
    THEN Some([hasBidirectionalData |-> HasExplicitData(data),
               recipes |-> data.recipes])
    ELSE IF Truthy(data.element)
    THEN Some([hasBidirectionalData |-> HasExplicitData(data),
               recipes |-> <<data>>])
    ELSE Absent

\* processBidirectionalData(data) of the effect run whose closure holds
\* targetElement = target and currentRecipeIndex = idx, run on state st
processBidirectionalData(data, target, idx, st) ==
    IF ~Present(data) THEN st
    ELSE
    LET extractedData == extractBidirectionalDataFromServerResponse(Get(data)) IN
    IF ~Present(extractedData) THEN st
    ELSE
    LET recipes == Get(extractedData).recipes
        st1 == [st EXCEPT !.hasBidirectionalData =
                              Get(extractedData).hasBidirectionalData]
    IN
    IF Len(recipes) > 1
    THEN LET validIndex == IF idx >= Len(recipes) THEN 0 ELSE idx
             st2 == [st1 EXCEPT
                        !.multipleRecipes = recipes,
                        !.currentRecipeIndex =
                            IF idx >= Len(recipes) THEN 0 ELSE @,
                        !.currentRecipeData = Some(recipes[validIndex + 1])]
         IN  ApplyRecipeData(st2, recipes[validIndex + 1], target)
    ELSE LET st2 == [st1 EXCEPT !.multipleRecipes = <<recipes[1]>>,
                                !.currentRecipeData = Some(recipes[1])]
         IN  ApplyRecipeData(st2, recipes[1], target)

\* processBidirectionalData(data) ends with the TypeError of processRecipeData
processBidirectionalDataThrows(data, target, idx) ==
    /\ Present(data)
    /\ Present(extractBidirectionalDataFromServerResponse(Get(data)))
    /\ LET recipes ==
               Get(extractBidirectionalDataFromServerResponse(Get(data))).recipes
           validIndex == IF Len(recipes) > 1 /\ idx < Len(recipes)
                         THEN idx ELSE 0
       IN  processRecipeDataThrows(recipes[validIndex + 1], target)

\* the body of the effect: reset, then a new socket
BidirEffect(t, md, socks) ==
    /\ SetBidirState(BidirReset(t))
    /\ loading' = TRUE
    /\ status' = "Searching for " \o t \o "..."
    /\ progress' = 0
    /\ resultText' = <<"Searching...">>
    /\ stats' = Absent
    /\ sockets' = Append(socks, NewSocket(t, md, currentRecipeIndex))
    /\ socketRef' = Len(socks) + 1

\* the effect runs after the page is mounted
BidirMount ==
    /\ Len(sockets) = 0
    /\ BidirEffect(targetElement, mode, sockets)
    /\ UNCHANGED <<pureVars, stdVars, propVars, timers, dfsVars>>

\* targetElement or limit changes (the page only forwards mode and limit in
\* the request): cleanup, then the effect again
BidirNewSearch ==
    /\ Len(sockets) \in 1..(MaxSessions - 1)
    /\ \E t \in BidirTargets :
          /\ targetElement' = t
          /\ BidirEffect(t, mode, CleanupSockets(sockets, socketRef))
    /\ UNCHANGED <<pureVars, stdVars, mode, timers, dfsVars>>

\* socket.onopen
BidirOnOpen ==
    \E s \in 1..Len(sockets) :
        /\ sockets[s].readyState = "CONNECTING"
        /\ status' = "Connected to server. Starting search..."
        /\ sockets' = [sockets EXCEPT ![s].readyState = "OPEN",
                                      ![s].sent = @ + 1]
        /\ UNCHANGED <<pureVars, stdVars, propVars, socketRef, timers, loading,
                       progress, resultText, stats, bidirVars, dfsVars>>

\* socket.onerror; the close event follows
BidirOnError ==
    \E s \in 1..Len(sockets) :
        /\ sockets[s].readyState \in {"CONNECTING", "OPEN"}
        /\ status' = "Error connecting to server."
        /\ loading' = FALSE
        /\ sockets' = [sockets EXCEPT ![s].readyState = "CLOSING"]
        /\ UNCHANGED <<pureVars, stdVars, propVars, socketRef, timers, progress,
                       resultText, stats, bidirVars, dfsVars>>

\* socket.onclose
BidirOnClose ==
    \E s \in 1..Len(sockets) :
        /\ sockets[s].readyState \in {"OPEN", "CLOSING"}
        /\ status' = "Disconnected from server."
        /\ loading' = FALSE
        /\ sockets' = [sockets EXCEPT ![s].readyState = "CLOSED"]
        /\ UNCHANGED <<pureVars, stdVars, propVars, socketRef, timers, progress,
                       resultText, stats, bidirVars, dfsVars>>

\* the status the result branch sets
BidirResultStatus(msg, target) ==
    IF ~Present(msg.path) \/ Len(Get(msg.path).recipes) = 0
    THEN "Search completed. No recipes found for " \o target \o "."
    ELSE "Search completed. Found " \o ToString(Len(Get(msg.path).recipes))
             \o " recipe(s) for " \o target \o "."

\* a delivery that also sends the search request again
ReceiveAndResend(s, msg) ==
    [sockets EXCEPT ![s].log = Append(@, msg.type), ![s].last = Some(msg),
                    ![s].sent = @ + 1]

\* the message is delivered to the handler of session s
Receive(s, msg) ==
    [sockets EXCEPT ![s].log = Append(@, msg.type), ![s].last = Some(msg)]

\* socket.onmessage, data.type === "error"
BidirOnErrorMessage(s, msg) ==
    /\ msg.type = "error"
    /\ status' = "Error: " \o Get(msg.path).error
    /\ loading' = FALSE
    /\ sockets' = Receive(s, msg)
    /\ UNCHANGED <<pureVars, stdVars, propVars, socketRef, timers, progress,
                   resultText, stats, bidirVars, dfsVars>>

\* socket.onmessage, data.type === "progress"
BidirOnProgress(s, msg) ==
    /\ msg.type = "progress"
    /\ Len(timers) < MaxTimers
    /\ progress' = msg.nodeCount
    /\ status' = "Processing... Examining element: " \o msg.element
    /\ stats' = StatsOf(msg)
    /\ timers' = Schedule(timers, PROGRESS_DELAY, "processBidirectionalData",
                          msg.path, s, sockets[s].target)
    /\ resultText' = <<"JSON", msg.path>>
    /\ sockets' = Receive(s, msg)
    /\ UNCHANGED <<pureVars, stdVars, propVars, socketRef, loading, bidirVars, dfsVars>>

\* socket.onmessage, data.type === "result"
BidirOnResult(s, msg) ==
    /\ msg.type = "result"
    /\ loading' = FALSE
    /\ stats' = StatsOf(msg)
    /\ SetBidirState(processBidirectionalData(msg.path, sockets[s].target,
                                              sockets[s].index, BidirState))
    /\ IF processBidirectionalDataThrows(msg.path, sockets[s].target,
                                         sockets[s].index)
       THEN /\ status' = "Error processing server message."   \* catch
            /\ UNCHANGED resultText
       ELSE /\ status' = BidirResultStatus(msg, sockets[s].target)
            /\ resultText' = <<"JSON", msg.path>>
    /\ sockets' = Receive(s, msg)
    /\ UNCHANGED <<pureVars, stdVars, propVars, socketRef, timers, progress, dfsVars>>

\* socket.onmessage of the socket of session s
BidirOnMessage ==
    \E s \in 1..Len(sockets), msg \in BidirMessages :
        /\ sockets[s].readyState = "OPEN"
        /\ Len(sockets[s].log) < MaxMessages
        /\ \/ BidirOnErrorMessage(s, msg)
           \/ BidirOnProgress(s, msg)
           \/ BidirOnResult(s, msg)

\* a pending setTimeout callback runs
BidirTimer ==
    \E i \in 1..Len(timers) :
        /\ CanFire(i)
        /\ timers' = RemoveAt(timers, i)
        /\ \/ /\ timers[i].fn = "processBidirectionalData"
              /\ SetBidirState(processBidirectionalData(
                     timers[i].data, timers[i].target,
                     sockets[timers[i].sid].index, BidirState))
           \/ /\ timers[i].fn = "processRecipeData"
              /\ SetBidirState(ApplyRecipeData(BidirState, timers[i].data,
                                               timers[i].target))
        /\ UNCHANGED <<pureVars, stdVars, propVars, sockets, socketRef, uiVars, dfsVars>>

\* handlePreviousRecipe / handleNextRecipe with newIndex
BidirNavigate(newIndex) ==
    LET nextRecipe == multipleRecipes[newIndex + 1] IN
    /\ Len(timers) < MaxTimers
    /\ SetBidirState(ResetClassification(
           [BidirState EXCEPT !.currentRecipeIndex = newIndex,
                              !.currentRecipeData = Some(nextRecipe)],
           targetElement))
    /\ timers' = Schedule(timers, NAVIGATION_DELAY, "processRecipeData",
                          nextRecipe, socketRef, targetElement)
    /\ UNCHANGED <<pureVars, stdVars, propVars, sockets, socketRef, uiVars, dfsVars>>

BidirHandlePreviousRecipe ==
    /\ Len(multipleRecipes) > 0 /\ currentRecipeIndex > 0
    /\ BidirNavigate(currentRecipeIndex - 1)

BidirHandleNextRecipe ==
    /\ Len(multipleRecipes) > 0
    /\ currentRecipeIndex < Len(multipleRecipes) - 1
    /\ BidirNavigate(currentRecipeIndex + 1)

InitBidir ==
    /\ pageIdle
    /\ targetElement \in BidirTargets /\ mode = "multiple"
    /\ UiIdle /\ BidirIdle /\ DfsIdle /\ StdIdle

NextBidir ==
    \/ BidirMount \/ BidirNewSearch
    \/ BidirOnOpen \/ BidirOnError \/ BidirOnClose \/ BidirOnMessage
    \/ BidirTimer
    \/ BidirHandlePreviousRecipe \/ BidirHandleNextRecipe

SpecBidir == InitBidir /\ [][NextBidir]_vars

\* what processRecipeData makes of the recipe the page shows, from the reset
ClassificationOf(st) ==
    [forward |-> st.forward, backward |-> st.backward, meeting |-> st.meeting,
     connections |-> st.connections]

ResultsIn(log) == Cardinality({k \in 1..Len(log) : log[k] = "result"})

\* C1: for one search request, once the result message has been handled and
\* every pending timer has fired, the derived state is the state built from
\* the result payload alone, whatever progress messages came before it: the
\* recipe list and the data flag are those of the result, and the
\* classification is the one of the recipe shown, built from the reset sets.
C1_ResultSupersedesProgress ==
    (/\ Len(sockets) = 1 /\ socketRef = 1
     /\ Present(sockets[1].last) /\ Get(sockets[1].last).type = "result"
     /\ ResultsIn(sockets[1].log) = 1
     /\ timers = <<>>
     /\ Present(processBidirectionalData(Get(sockets[1].last).path,
                    targetElement, 0, BidirReset(targetElement)).currentRecipeData))
    => LET built == processBidirectionalData(Get(sockets[1].last).path,
                        targetElement, 0, BidirReset(targetElement))
       IN  /\ multipleRecipes = built.multipleRecipes
           /\ hasBidirectionalData = built.hasBidirectionalData
           /\ currentRecipeIndex < Len(multipleRecipes)
           /\ currentRecipeData = Some(multipleRecipes[currentRecipeIndex + 1])
           /\ ClassificationOf(BidirState) =
                  ClassificationOf(ApplyRecipeData(BidirReset(targetElement),
                      multipleRecipes[currentRecipeIndex + 1], targetElement))

\* C2: a new search on a mounted page tears the previous session down: every
\* socket but the current one is closing or closed, whatever state it was in
\* (so it sends no search request afterwards), and as long as the new session
\* has received nothing the derived state is the one the reset left.
C2_PreviousSessionTornDown ==
    /\ \A s \in 1..Len(sockets) :
          s # socketRef => sockets[s].readyState \in {"CLOSING", "CLOSED"}
    /\ (socketRef # 0 /\ sockets[socketRef].log = <<>>)
          => BidirState = BidirReset(targetElement)

\* C6: the four base elements are always in the forward set and the target of
\* the current session is always in the backward set.
C6_BaseForwardTargetBackward ==
    /\ BaseElements \subseteq forwardElements
    /\ targetElement \in backwardElements

\* C10: an error message is terminal for its session: a message delivered on
\* a socket after an error message changes neither the derived state, nor the
\* statistics, nor the status.
C10_ErrorIsTerminal ==
    [][\A s \in 1..Len(sockets) :
          ("error" \in Range(sockets[s].log) /\ sockets'[s].log # sockets[s].log)
              => UNCHANGED <<bidirVars, stats, status>>]_vars

\* C15: a result message whose path has recipes: [] is not an error: the
\* step that handles it in the only session of the page, as the first answer
\* of that session, leaves a status that
\* says that no recipes were found, no recipe to show and the classification
\* of the reset, with nothing left over from earlier progress messages.
C15_EmptyResultShowsNothing ==
    [][\A s \in 1..Len(sockets) :
          (/\ Len(sockets') = 1
           /\ Range(sockets[s].log) \subseteq {"progress"}
           /\ sockets'[s].log = Append(sockets[s].log, "result")
           /\ Get(sockets'[s].last).path = Some(RecipeList(<<>>)))
          => /\ status' = "Search completed. No recipes found for "
                              \o targetElement \o "."
             /\ multipleRecipes' = <<>> /\ currentRecipeData' = Absent
             /\ forwardElements' = BaseElements
             /\ backwardElements' = {targetElement}
             /\ meetingPoints' = {} /\ elementConnections' = <<>>]_vars

---------------------------------------------------------------------------
(* DFSTreePage                                                             *)

ANIMATION_DELAY == 100    \* const ANIMATION_DELAY = 100
MaxDfsTimers == 3         \* setTimeout callbacks pending at a time

DfsTargets == {"Mud"}

DfsRecipe1 == Node("Mud", <<Leaf("Water")>>)
DfsRecipe2 == Node("Mud", <<Leaf("Earth")>>)

\* the node of an individual node progress
DfsProgressNodes ==
    { [element |-> "Water", depth |-> 1, parent |-> "Mud"] }

\* the paths of the answers all carry a recipes array
DfsResultPaths == { DfsRecipe1, RecipeList(<<DfsRecipe1, DfsRecipe2>>) }

DfsMessages ==
    { [type |-> "progress", node |-> nd, path |-> Absent, nodeCount |-> 1,
       message |-> ""] : nd \in {Absent} \cup {Some(n) : n \in DfsProgressNodes} }
    \cup { [type |-> "result", node |-> Absent, path |-> Some(pth),
            nodeCount |-> 2, message |-> ""] : pth \in DfsResultPaths }
    \cup { [type |-> "error", node |-> Absent, path |-> Absent,
            nodeCount |-> 0, message |-> "Element not found"] }

DfsState ==
    [dfsNodes |-> dfsNodes, connections |-> connections,
     currentPath |-> currentPath, visitedNodes |-> visitedNodes]

SetDfsState(st) ==
    /\ dfsNodes' = st.dfsNodes
    /\ connections' = st.connections
    /\ currentPath' = st.currentPath
    /\ visitedNodes' = st.visitedNodes

\* a duplicate search that never finds a node
FindExistingNever(prev, data) == 0

\* prev.find(n => n.element === data.element && n.depth === data.depth &&
\* n.parent === data.parent): the index of the node found, or 0
FindExisting(prev, data) ==
    FirstIdx({ i \in 1..Len(prev) :
                 /\ prev[i].element = data.element
                 /\ prev[i].depth = data.depth
                 /\ prev[i].parent = data.parent })

\* a parent search that looks at the element only
FindParentAnyDepth(nodes, child) ==
    FirstIdx({ i \in 1..Len(nodes) : nodes[i].element = child.parent })

\* find(n => n.element === child.parent && n.depth === child.depth - 1)
FindParent(nodes, child) ==
    FirstIdx({ i \in 1..Len(nodes) :
                 /\ nodes[i].element = child.parent
                 /\ nodes[i].depth = child.depth - 1 })

RECURSIVE PathKeys(_, _)
\* the walk of the currentPath filter from current up to the root: the
\* (element, depth) pairs a node is compared with
PathKeys(updated, current) ==
    IF current.parent = Null
    THEN {<<current.element, current.depth>>}
    ELSE LET p == FindParent(updated, current) IN
         {<<current.element, current.depth>>}
             \cup (IF p = 0 THEN {} ELSE PathKeys(updated, updated[p]))

\* processDFSData(data) run on state st; the three lists are only cleared
\* together, so the number of the new node is a stamp no id in them carries
processDFSData(data, st) ==
    LET prev    == st.dfsNodes
        newNode == [element |-> data.element, depth |-> data.depth,
                    parent |-> data.parent,
                    id |-> MakeId(data.element, data.depth, Len(prev) + 1)]
        visited == st.visitedNodes \cup {data.element}
    IN
    IF FindExisting(prev, data) # 0
    THEN [st EXCEPT !.visitedNodes = visited]
    ELSE
    LET updated   == Append(prev, newNode)
        p         == IF data.parent # Null THEN FindParent(prev, newNode) ELSE 0
        keys      == PathKeys(updated, newNode)
        OnPath(n) == <<n.element, n.depth>> \in keys
        pathNodes == SelectSeq(updated, OnPath)
    IN  [dfsNodes |-> updated,
         connections |->
             IF p # 0
             THEN Append(st.connections,
                         [parent |-> prev[p].id, child |-> newNode.id])
             ELSE st.connections,
         currentPath |-> [k \in 1..Len(pathNodes) |-> pathNodes[k].id],
         visitedNodes |-> visited]

\* dfsNodes.forEach((node, index) => setTimeout(..., index * ANIMATION_DELAY))
ScheduleReveal(tms, nodes, sid) ==
    tms \o [k \in 1..Len(nodes) |->
                [delay |-> (k - 1) * ANIMATION_DELAY, fn |-> "processDFSData",
                 data |-> nodes[k], sid |-> sid, target |-> ""]]

\* processRecipeTree(recipeTree): recipeTree is Absent for undefined
processRecipeTree(recipeTree, sid) ==
    IF ~Present(recipeTree)
    THEN UNCHANGED <<dfsNodes, connections, currentPath, timers>>
    ELSE LET nodes == buildTrace(Get(recipeTree)).nodes IN
         /\ Len(timers) + Len(nodes) <= MaxDfsTimers
         /\ dfsNodes' = <<>> /\ connections' = <<>> /\ currentPath' = <<>>
         /\ timers' = ScheduleReveal(timers, nodes, sid)

\* the body of the effect: reset, then a new socket
DfsEffect(t, md, socks) ==
    /\ dfsNodes' = <<>> /\ connections' = <<>> /\ visitedNodes' = {}
    /\ currentPath' = <<>>
    /\ loading' = TRUE
    /\ status' = "Searching for " \o t \o " using DFS..."
    /\ progress' = 0
    /\ resultText' = <<"Searching...">>
    /\ multipleResults' = <<>>
    /\ currentResultIndex' = 0
    /\ stats' = Absent
    /\ sockets' = Append(socks, NewSocket(t, md, 0))
    /\ socketRef' = Len(socks) + 1
    /\ UNCHANGED currentRecipe

\* the effect runs after the page is mounted
DfsMount ==
    /\ Len(sockets) = 0
    /\ DfsEffect(targetElement, mode, sockets)
    /\ UNCHANGED <<pureVars, stdVars, propVars, timers, bidirVars>>

\* targetElement, mode or limit changes: cleanup, then the effect again
DfsNewSearch ==
    /\ Len(sockets) \in 1..(MaxSessions - 1)
    /\ \E t \in DfsTargets, md \in Modes :
          /\ targetElement' = t /\ mode' = md
          /\ DfsEffect(t, md, CleanupSockets(sockets, socketRef))
    /\ UNCHANGED <<pureVars, stdVars, timers, bidirVars>>

\* socket.onopen
DfsOnOpen ==
    \E s \in 1..Len(sockets) :
        /\ sockets[s].readyState = "CONNECTING"
        /\ status' = "Connected to server. Starting DFS search..."
        /\ sockets' = [sockets EXCEPT ![s].readyState = "OPEN",
                                      ![s].sent = @ + 1]
        /\ UNCHANGED <<pureVars, stdVars, propVars, socketRef, timers, loading,
                       progress, resultText, stats, bidirVars, dfsVars>>

\* socket.onerror; the close event follows
DfsOnError ==
    \E s \in 1..Len(sockets) :
        /\ sockets[s].readyState \in {"CONNECTING", "OPEN"}
        /\ status' = "Error connecting to server."
        /\ loading' = FALSE
        /\ sockets' = [sockets EXCEPT ![s].readyState = "CLOSING"]
        /\ UNCHANGED <<pureVars, stdVars, propVars, socketRef, timers, progress,
                       resultText, stats, bidirVars, dfsVars>>

\* socket.onclose
DfsOnClose ==
    \E s \in 1..Len(sockets) :
        /\ sockets[s].readyState \in {"OPEN", "CLOSING"}
        /\ status' = "Disconnected from server."
        /\ loading' = FALSE
        /\ sockets' = [sockets EXCEPT ![s].readyState = "CLOSED"]
        /\ UNCHANGED <<pureVars, stdVars, propVars, socketRef, timers, progress,
                       resultText, stats, bidirVars, dfsVars>>

\* socket.onmessage, data.type === "error"
DfsOnErrorMessage(s, msg) ==
    /\ msg.type = "error"
    /\ status' = "Error: " \o msg.message
    /\ loading' = FALSE
    /\ sockets' = Receive(s, msg)
    /\ UNCHANGED <<pureVars, stdVars, propVars, socketRef, timers, progress,
                   resultText, stats, bidirVars, dfsVars>>

\* socket.onmessage, data.type === "progress"
DfsOnProgress(s, msg) ==
    /\ msg.type = "progress"
    /\ progress' = msg.nodeCount
    /\ stats' = StatsOf(msg)
    /\ IF Present(msg.node)
       THEN /\ Len(timers) < MaxDfsTimers
            /\ status' = "DFS exploring... Current: " \o Get(msg.node).element
                             \o " (depth " \o ToString(Get(msg.node).depth) \o ")"
            /\ timers' = Schedule(timers, ANIMATION_DELAY, "processDFSData",
                                  Get(msg.node), s, "")
            /\ resultText' = <<"JSON", msg.node>>
       ELSE /\ status' = "DFS exploring... " \o ToString(msg.nodeCount)
                             \o " nodes visited"
            /\ UNCHANGED <<timers, resultText>>
    /\ sockets' = Receive(s, msg)
    /\ UNCHANGED <<pureVars, stdVars, propVars, socketRef, loading, bidirVars, dfsVars>>

\* socket.onmessage, data.type === "result"
DfsOnResult(s, msg) ==
    /\ msg.type = "result"
    /\ loading' = FALSE
    /\ status' = "DFS completed. Found path to " \o sockets[s].target \o "."
    /\ resultText' = <<"JSON", Some(msg)>>
    /\ stats' = StatsOf(msg)
    /\ IF Present(msg.path)
       THEN LET path   == Get(msg.path)
                shown  == IF sockets[s].mode = "multiple"
                          THEN (IF Len(path.recipes) > 0
                                THEN Some(path.recipes[1]) ELSE Absent)
                          ELSE Some(path)
            IN  /\ multipleResults' = IF sockets[s].mode = "multiple"
                                      THEN path.recipes ELSE <<path>>
                /\ currentResultIndex' = 0
                /\ currentRecipe' = shown
                /\ processRecipeTree(shown, s)
                /\ UNCHANGED visitedNodes
       ELSE UNCHANGED <<timers, dfsVars>>
    /\ sockets' = Receive(s, msg)
    /\ UNCHANGED <<pureVars, stdVars, propVars, socketRef, progress, bidirVars>>

\* socket.onmessage of the socket of session s
DfsOnMessage ==
    \E s \in 1..Len(sockets), msg \in DfsMessages :
        /\ sockets[s].readyState = "OPEN"
        /\ Len(sockets[s].log) < MaxMessages
        /\ \/ DfsOnErrorMessage(s, msg)
           \/ DfsOnProgress(s, msg)
           \/ DfsOnResult(s, msg)

\* a pending setTimeout callback runs: processDFSData(node)
DfsTimer ==
    \E i \in 1..Len(timers) :
        /\ CanFire(i)
        /\ timers' = RemoveAt(timers, i)
        /\ SetDfsState(processDFSData(timers[i].data, DfsState))
        /\ UNCHANGED <<pureVars, stdVars, propVars, sockets, socketRef, uiVars,
                       bidirVars, multipleResults, currentResultIndex,
                       currentRecipe>>

\* handlePreviousRecipe / handleNextRecipe with newIndex
DfsNavigate(newIndex) ==
    /\ currentResultIndex' = newIndex
    /\ currentRecipe' = Some(multipleResults[newIndex + 1])
    /\ processRecipeTree(Some(multipleResults[newIndex + 1]), socketRef)
    /\ UNCHANGED <<pureVars, stdVars, propVars, sockets, socketRef, uiVars, bidirVars,
                   visitedNodes, multipleResults>>

DfsHandlePreviousRecipe ==
    /\ Len(multipleResults) > 0 /\ currentResultIndex > 0
    /\ DfsNavigate(currentResultIndex - 1)

DfsHandleNextRecipe ==
    /\ Len(multipleResults) > 0
    /\ currentResultIndex < Len(multipleResults) - 1
    /\ DfsNavigate(currentResultIndex + 1)

InitDFS ==
    /\ pageIdle
    /\ targetElement \in DfsTargets /\ mode \in Modes
    /\ UiIdle /\ BidirIdle /\ DfsIdle /\ StdIdle

NextDFS ==
    \/ DfsMount \/ DfsNewSearch
    \/ DfsOnOpen \/ DfsOnError \/ DfsOnClose \/ DfsOnMessage
    \/ DfsTimer
    \/ DfsHandlePreviousRecipe \/ DfsHandleNextRecipe

SpecDFS == InitDFS /\ [][NextDFS]_vars

SameKey(a, b) ==
    a.element = b.element /\ a.depth = b.depth /\ a.parent = b.parent

\* C7: whatever the interleaving of progress nodes, reveal timers, answers and
\* navigation, the DFS node list never holds two nodes with the same element,
\* depth and parent.
C7_NoDuplicateDfsNode ==
    \A i, j \in 1..Len(dfsNodes) :
        i # j => ~SameKey(dfsNodes[i], dfsNodes[j])

RECURSIVE RevealFrom(_, _, _)
\* processDFSData run for the nodes k.. of a trace, in order
RevealFrom(nodes, k, st) ==
    IF k > Len(nodes) THEN st
    ELSE RevealFrom(nodes, k + 1, processDFSData(nodes[k], st))

\* the lists a recipe gives when it alone is revealed on an empty page
RevealOf(recipeTree) ==
    RevealFrom(buildTrace(recipeTree).nodes, 1,
               [dfsNodes |-> <<>>, connections |-> <<>>,
                currentPath |-> <<>>, visitedNodes |-> {}])

\* C7 witness: the answer's reveal and a progress node have both offered the
\* node Water under Mud at depth 1, every timer has run, and the list holds
\* the nodes of the recipe, Water once.
C7_Witness ==
    /\ Len(sockets) = 1 /\ sockets[1].log = <<"result", "progress">>
    /\ sockets[1].last = Some([type |-> "progress",
           node |-> Some([element |-> "Water", depth |-> 1, parent |-> "Mud"]),
           path |-> Absent, nodeCount |-> 1, message |-> ""])
    /\ timers = <<>>
    /\ currentRecipe = Some(DfsRecipe1)
    /\ Len(dfsNodes) = 2
    /\ \A k \in 1..2 : SameKey(dfsNodes[k], RevealOf(DfsRecipe1).dfsNodes[k])

\* C9: recipe navigation replaces the derived state in full: in a session
\* whose only message is the answer, once every timer has run the DFS node
\* list and the connections are exactly those of the recipe shown, revealed
\* alone, also when the navigation came during the reveal of another recipe.
C9_NavigationReplacesState ==
    (/\ Len(sockets) = 1 /\ sockets[1].log = <<"result">>
     /\ timers = <<>> /\ Present(currentRecipe))
    => /\ dfsNodes = RevealOf(Get(currentRecipe)).dfsNodes
       /\ connections = RevealOf(Get(currentRecipe)).connections

\* C11: when the connection closes the derived state freezes: once the socket
\* of the only session is closed, a step that neither starts a new search nor
\* navigates between recipes leaves the DFS node list, the connections and
\* the current path as they are; no timer scheduled before the close changes
\* them.
C11_CloseFreezesState ==
    [][(/\ Len(sockets) = 1 /\ sockets[1].readyState = "CLOSED"
        /\ Len(sockets') = 1
        /\ currentResultIndex' = currentResultIndex)
          => UNCHANGED <<dfsNodes, connections, currentPath>>]_vars

---------------------------------------------------------------------------
(* Specification of processBidirectionalData as a function of the payload  *)
(* of a message and the target, run on the state the effect's reset leaves *)

\* the explicit payloads, with and without an element and a recipes field
ProcessPayloads ==
    { [p EXCEPT !.element = e, !.recipes = kids] :
        p \in ExplicitPayloads, e \in {Undefined, "Wood"},
        kids \in { <<>>, <<Leaf("Water")>> } }

InitProcess ==
    /\ pc = "input"
    /\ inTree \in ProcessPayloads
    /\ inTarget \in ClassifyTargets \cup {"Wood"}
    /\ outRecipes = <<>> /\ outTrace = EmptyTrace /\ outState = Absent
    /\ outGraph = NoGraph /\ viewport = Unmeasured
    /\ PureIdle

\* processBidirectionalData(data.path) in a fresh session
Process ==
    /\ pc = "input"
    /\ outState' = Some(processBidirectionalData(Some(inTree), inTarget, 0,
                                                 BidirReset(inTarget)))
    /\ pc' = "processed"
    /\ UNCHANGED <<inTree, inTarget, outRecipes, outTrace, outGraph,
                 viewport, pageVars>>

NextProcess == Process

SpecProcess == InitProcess /\ [][NextProcess]_vars

\* the maps of an explicit payload, in either casing
ForwardMapOf(data) == OrElse(data.forwardVisited, data.ForwardVisited, <<>>)
BackwardMapOf(data) == OrElse(data.backwardVisited, data.BackwardVisited, <<>>)

\* C12: for a payload that carries forwardVisited / backwardVisited maps,
\* with or without an element or recipes field, classification with target t
\* gives forward = base elements \cup keys(forwardVisited), backward = {t} \cup
\* keys(backwardVisited), and connections[e] = the Recipe list of e for
\* exactly the entries that carry a non-empty Recipe.
C12_ExplicitClassification ==
    pc = "processed" =>
        LET fv == ForwardMapOf(inTree)
            bv == BackwardMapOf(inTree)
            st == Get(outState)
        IN  /\ st.forward = BaseElements \cup DOMAIN fv
            /\ st.backward = {inTarget} \cup DOMAIN bv
            /\ DOMAIN st.connections =
                  DOMAIN RecipesOf(fv) \cup DOMAIN RecipesOf(bv)
            /\ \A e \in DOMAIN st.connections :
                  \/ e \in DOMAIN fv /\ st.connections[e] = fv[e]
                  \/ e \in DOMAIN bv /\ st.connections[e] = bv[e]

---------------------------------------------------------------------------
(* Specification of the classifier on trees with malformed nodes           *)

MaxSkipNodes == 4

\* an element, a missing element field, or a null entry
SkipElems == {"Mud", "Water", Undefined, Null}

RECURSIVE NullsAreLeaves(_)
NullsAreLeaves(t) ==
    /\ IsNull(t) => Len(t.recipes) = 0
    /\ \A i \in 1..Len(t.recipes) : NullsAreLeaves(t.recipes[i])

SkipInputs == { t \in Trees(SkipElems, MaxSkipNodes) : NullsAreLeaves(t) }

InitSkip ==
    /\ pc = "input"
    /\ inTree \in SkipInputs
    /\ inTarget \in ClassifyTargets
    /\ outRecipes = <<>> /\ outTrace = EmptyTrace /\ outState = Absent
    /\ outGraph = NoGraph /\ viewport = Unmeasured
    /\ PureIdle

NextSkip == Classify

SpecSkip == InitSkip /\ [][NextSkip]_vars

RECURSIVE Prune(_)
\* the tree without its malformed nodes below the root
Prune(t) ==
    LET keep == { i \in 1..Len(t.recipes) : Truthy(t.recipes[i].element) }
        kept == SeqFilterIdx(t.recipes, keep, 1)
    IN  [t EXCEPT !.recipes = [i \in 1..Len(kept) |-> Prune(kept[i])]]

\* C16: in the implicit classifier a malformed node (null, or an object
\* without an element) at any position is skipped and no exception is raised:
\* the classification is the one of the tree without its malformed nodes.
C16_MalformedNodeSkipped ==
    pc # "input" =>
        /\ pc = "classified"
        /\ outState = processRecipeData(Prune(inTree), inTarget)

---------------------------------------------------------------------------
(* Specification of the extractor and the trace builder on trees with      *)
(* nodes that lack the element field                                       *)

MaxMalformedNodes == 4

MalformedElems == {"Mud", "Water", Undefined}

InitMalformed ==
    /\ pc = "input"
    /\ inTree \in Trees(MalformedElems, MaxMalformedNodes)
    /\ inTarget = ""
    /\ outRecipes = <<>> /\ outTrace = EmptyTrace /\ outState = Absent
    /\ outGraph = NoGraph /\ viewport = Unmeasured
    /\ PureIdle

NextMalformed == Extract \/ Trace

SpecMalformed == InitMalformed /\ [][NextMalformed]_vars

\* C17: a node that lacks the element field is skipped by the extractor and
\* by the trace builder and its siblings are still processed: extractRecipes
\* gives no Recipe with a missing result and no ingredient list with a missing
\* entry, traverseDFS gives no DFSNode for the node, and both give what they
\* give for the tree without such nodes.
C17_ElementlessNodeSkipped ==
    /\ pc = "extracted" =>
          /\ \A r \in 1..Len(outRecipes) :
                /\ outRecipes[r].result # Undefined
                /\ Undefined \notin Range(outRecipes[r].ingredients)
          /\ Truthy(inTree.element)
                => outRecipes = extractRecipes(Prune(inTree))
    /\ pc = "traced" =>
          /\ \A k \in 1..Len(outTrace.nodes) :
                outTrace.nodes[k].element # Undefined
          /\ Truthy(inTree.element) => outTrace = buildTrace(Prune(inTree))

\* a payload written with the capitalised field names only
IsUpperCased(p) ==
    /\ ~Present(p.forwardVisited) /\ ~Present(p.backwardVisited)
    /\ ~Present(p.meetingPoints)
    /\ Present(p.ForwardVisited) \/ Present(p.BackwardVisited)

\* the same payload written with the lower-case field names
LowerCased(p) ==
    [p EXCEPT !.forwardVisited = p.ForwardVisited, !.ForwardVisited = Absent,
              !.backwardVisited = p.BackwardVisited, !.BackwardVisited = Absent,
              !.meetingPoints = p.MeetingPoints, !.MeetingPoints = Absent]

\* C18: both casings of the explicit fields are accepted with the same
\* result: a payload written with ForwardVisited / BackwardVisited /
\* MeetingPoints gives the same forward, backward, meeting and connections as
\* the same payload written with forwardVisited / backwardVisited /
\* meetingPoints.
C18_CasingVariantsAgree ==
    (pc = "processed" /\ IsUpperCased(inTree)) =>
        ClassificationOf(Get(outState)) =
            ClassificationOf(processBidirectionalData(Some(LowerCased(inTree)),
                                 inTarget, 0, BidirReset(inTarget)))

\* C18 witness: a capitalised payload with both maps and a meeting-point list
\* has been classified and its keys and Recipe lists are in the state.
C18_Witness ==
    /\ pc = "processed" /\ IsUpperCased(inTree)
    /\ Present(inTree.ForwardVisited) /\ Present(inTree.BackwardVisited)
    /\ Present(inTree.MeetingPoints)
    /\ "Wood" \in Get(outState).forward \cap Get(outState).backward
    /\ Get(outState).connections # <<>>
    /\ "Steam" \in Get(outState).meeting
---------------------------------------------------------------------------
(* Specification of the graph renderBidirectionalVisualization builds from *)
(* the classification of a payload                                         *)

MaxGraphNodes == 3

\* keys and Recipe lists of the visited maps: Steam is a key of some maps and
\* only an ingredient in others
GraphKeys == {"Wood", "Steam"}
GraphRecipeLists == { <<>>, <<"Water", "Earth">>, <<"Steam", "Water">> }

GraphMaps == UNION { [D -> GraphRecipeLists] : D \in SUBSET GraphKeys }

GraphOptionalMaps == { Absent } \cup { Some(m) : m \in GraphMaps }

GraphPayloads ==
    { p \in { Explicit("Wood", <<>>, fv, bv, mp) :
                 fv \in GraphOptionalMaps, bv \in GraphOptionalMaps,
                 mp \in { Absent, Some(<<"Steam">>) } }
       : HasExplicitData(p) }

GraphInputs == GraphPayloads \cup Trees(ClassifyElems, MaxGraphNodes)

InitGraph ==
    /\ pc = "input"
    /\ inTree \in GraphInputs
    /\ inTarget \in ClassifyTargets \cup {"Wood"}
    /\ outRecipes = <<>> /\ outTrace = EmptyTrace /\ outState = Absent
    /\ outGraph = NoGraph /\ viewport = Unmeasured
    /\ PureIdle

HasAnyId(nodeIds, element) == TRUE

\* nodeIds.has(element)
NodeIdsHas(nodeIds, element) == element \in nodeIds

\* the group of a node pushed from forwardElements or from backwardElements
GroupOf(st, element, side) ==
    IF element \in st.meeting THEN "meeting" ELSE side

\* "Determine link type based on the nodes it connects"
LinkType(st, source, target) ==
    IF source \in st.forward /\ target \in st.forward THEN "forward"
    ELSE IF source \in st.backward /\ target \in st.backward THEN "backward"
    ELSE IF \/ source \in st.forward /\ target \in st.backward
            \/ source \in st.backward /\ target \in st.forward
    THEN "meeting"
    ELSE "unknown"

\* the nodes array: the forward elements, then the backward elements that
\* are not forward elements
GraphNodes(st) ==
    { [id |-> e, group |-> GroupOf(st, e, "forward")] : e \in st.forward }
    \cup { [id |-> e, group |-> GroupOf(st, e, "backward")] :
              e \in st.backward \ st.forward }

\* the links array: one link per (target, position in sources) that passes
\* both nodeIds checks, indexed by that pair
GraphLinks(st) ==
    LET nodeIds == { n.id : n \in GraphNodes(st) }
        targets == { t \in DOMAIN st.connections : NodeIdsHas(nodeIds, t) }
        kept    == UNION { { <<t, i>> :
                               i \in { j \in 1..Len(st.connections[t]) :
                                         NodeIdsHas(nodeIds,
                                                    st.connections[t][j]) } }
                           : t \in targets }
    IN  [p \in kept |->
            [source |-> st.connections[p[1]][p[2]], target |-> p[1],
             type |-> LinkType(st, st.connections[p[1]][p[2]], p[1])]]

\* the nodes and links handed to d3.forceSimulation and d3.forceLink
renderBidirectionalVisualization(st) ==
    [nodes |-> GraphNodes(st), links |-> GraphLinks(st)]

\* the effect that draws the graph of the classification
Render ==
    /\ pc = "processed"
    /\ outGraph' = renderBidirectionalVisualization(Get(outState))
    /\ pc' = "rendered"
    /\ UNCHANGED <<inTree, inTarget, outRecipes, outTrace, outState,
                   viewport, pageVars>>

NextGraph == Process \/ Render

SpecGraph == InitGraph /\ [][NextGraph]_vars

NodeIdsOf(graph) == { n.id : n \in graph.nodes }

\* C19: the graph never fabricates a node: the node ids are exactly forward
\* \cup backward, every link comes from a connection entry and has its
\* source and its target among the node ids, and a connection entry whose
\* result or ingredient is in neither set gives no link.
C19_NoFabricatedNode ==
    pc = "rendered" =>
        LET st  == Get(outState)
            ids == NodeIdsOf(outGraph)
        IN  /\ ids = st.forward \cup st.backward
            /\ \A p \in DOMAIN outGraph.links :
                  LET l == outGraph.links[p] IN
                  /\ l.source \in ids /\ l.target \in ids
                  /\ l.target \in DOMAIN st.connections
                  /\ \E i \in 1..Len(st.connections[l.target]) :
                        st.connections[l.target][i] = l.source
            /\ \A t \in DOMAIN st.connections :
                  \A i \in 1..Len(st.connections[t]) :
                      (t \notin ids \/ st.connections[t][i] \notin ids)
                          => <<t, i>> \notin DOMAIN outGraph.links

\* a rendered graph with a link, drawn from connections that name Steam as
\* an ingredient while Steam is in neither set
C19_Witness ==
    /\ pc = "rendered"
    /\ DOMAIN outGraph.links # {}
    /\ "Steam" \notin Get(outState).forward \cup Get(outState).backward
    /\ \E t \in DOMAIN Get(outState).connections :
          \E i \in 1..Len(Get(outState).connections[t]) :
              Get(outState).connections[t][i] = "Steam"
---------------------------------------------------------------------------
(* Specification of createDFSLayout on the nodes a revealed recipe leaves  *)
(* in dfsNodes.  A coordinate is a fraction [num, den], not reduced.       *)

DefaultWidth == 800       \* clientWidth || 800
DefaultHeight == 600      \* clientHeight || 600
margin == 40              \* margin = { top: 40, right: 40, bottom: 40, left: 40 }
nodeRadius == 20          \* const nodeRadius = 20
minSpacing == nodeRadius * 3

MaxLayoutNodes == 4

\* sizes of the container: not measured, narrower than three nodes need, wide
Viewports ==
    { Unmeasured, [width |-> 180, height |-> 140],
      [width |-> 1000, height |-> 700] }

\* the Date.now() part of the ids of one reveal
LayoutClocks == {0, 10}

Max2(a, b) == IF a >= b THEN a ELSE b

Frac(num, den) == [num |-> num, den |-> den]

getDimensions(size) ==
    [width  |-> IF size.width = 0 THEN DefaultWidth ELSE size.width,
     height |-> IF size.height = 0 THEN DefaultHeight ELSE size.height]

\* nodesByDepth[depth]: the nodes of that depth, in the order of the array
DepthNodes(nodes, depth) ==
    LET AtDepth(n) == n.depth = depth IN SelectSeq(nodes, AtDepth)

IndexOfStamp(depthNodes, node) == node.id[3]

\* depthNodes.indexOf(node)
indexOf(depthNodes, node) ==
    (CHOOSE i \in 1..Len(depthNodes) :
        /\ depthNodes[i] = node
        /\ \A j \in 1..(i - 1) : depthNodes[j] # node) - 1

\* the x of a node before the left margin is added
LayoutX(nodes, node, innerWidth) ==
    LET depthNodes        == DepthNodes(nodes, node.depth)
        nodeIndex         == indexOf(depthNodes, node)
        totalNodesAtDepth == Len(depthNodes)
        requiredWidth     == totalNodesAtDepth * minSpacing
        availableWidth    == Max2(innerWidth, requiredWidth)
        \* actualSpacing * totalNodesAtDepth
        spacingTimesTotal == Max2(minSpacing * totalNodesAtDepth,
                                  availableWidth)
    IN  IF totalNodesAtDepth = 1
        THEN Frac(innerWidth, 2)
        ELSE Frac(2 * nodeIndex * spacingTimesTotal + spacingTimesTotal
                      - availableWidth * totalNodesAtDepth
                      + innerWidth * totalNodesAtDepth,
                  2 * totalNodesAtDepth)

\* the y of a node before the top margin is added
LayoutY(node, maxDepth, innerHeight) ==
    Frac(node.depth * innerHeight, Max2(maxDepth, 1))

PlusMargin(f) == Frac(f.num + margin * f.den, f.den)

\* positionedNodes.find((n) => n.id === id): the index found, or 0
FindById(positionedNodes, id) ==
    FirstIdx({ i \in 1..Len(positionedNodes) : positionedNodes[i].id = id })

createDFSLayout(nodes, conns, size) ==
    IF Len(nodes) = 0 THEN [nodes |-> <<>>, links |-> <<>>]
    ELSE
    LET maxDepth    == CHOOSE d \in { nodes[k].depth : k \in 1..Len(nodes) } :
                           \A k \in 1..Len(nodes) : nodes[k].depth <= d
        innerWidth  == getDimensions(size).width - margin - margin
        innerHeight == getDimensions(size).height - margin - margin
        positionedNodes ==
            [k \in 1..Len(nodes) |->
                [element |-> nodes[k].element, depth |-> nodes[k].depth,
                 parent |-> nodes[k].parent, id |-> nodes[k].id,
                 x |-> PlusMargin(LayoutX(nodes, nodes[k], innerWidth)),
                 y |-> PlusMargin(LayoutY(nodes[k], maxDepth, innerHeight))]]
        Linked(conn) == /\ FindById(positionedNodes, conn.parent) # 0
                        /\ FindById(positionedNodes, conn.child) # 0
        kept == SelectSeq(conns, Linked)
    IN  [nodes |-> positionedNodes,
         links |-> [k \in 1..Len(kept) |->
             [source |-> positionedNodes[FindById(positionedNodes,
                                                  kept[k].parent)],
              target |-> positionedNodes[FindById(positionedNodes,
                                                  kept[k].child)]]]]

\* an id of a reveal whose clock reads clock
ShiftId(id, clock) == MakeId(id[1], id[2], id[3] + clock)

\* the lists of a reveal whose clock reads clock
WithClock(st, clock) ==
    [st EXCEPT
        !.dfsNodes = [k \in 1..Len(@) |->
                         [@[k] EXCEPT !.id = ShiftId(@, clock)]],
        !.connections = [k \in 1..Len(@) |->
                            [parent |-> ShiftId(@[k].parent, clock),
                             child |-> ShiftId(@[k].child, clock)]],
        !.currentPath = [k \in 1..Len(@) |-> ShiftId(@[k], clock)]]

InitLayout ==
    /\ pc = "input"
    /\ inTree \in Trees(TreeElems, MaxLayoutNodes)
    /\ inTarget = ""
    /\ outRecipes = <<>> /\ outTrace = EmptyTrace /\ outState = Absent
    /\ outGraph = NoGraph
    /\ viewport \in Viewports
    /\ PureIdle

layoutFrame ==
    <<inTree, inTarget, outRecipes, outTrace, outState, propVars, netVars,
      uiVars, bidirVars, multipleResults, currentResultIndex, currentRecipe,
      stdVars>>

\* processRecipeTree with every reveal timer run, and the effect that draws
\* the nodes; a later reveal of the same recipe carries other ids
Reveal ==
    \E clock \in LayoutClocks :
        LET st == WithClock(RevealOf(inTree), clock) IN
        /\ pc = "input" \/ st.dfsNodes # dfsNodes
        /\ SetDfsState(st)
        /\ outGraph' = createDFSLayout(st.dfsNodes, st.connections, viewport)
        /\ pc' = "revealed"
        /\ UNCHANGED <<viewport, layoutFrame>>

\* handleResize: the container has a new size and the nodes are drawn again
HandleResize ==
    /\ pc # "input"
    /\ \E size \in Viewports \ {viewport} :
          /\ viewport' = size
          /\ outGraph' = createDFSLayout(dfsNodes, connections, size)
    /\ pc' = "resized"
    /\ UNCHANGED <<dfsVars, layoutFrame>>

\* renderDFSVisualization run again on the same nodes and the same size
Redraw ==
    /\ pc \in {"revealed", "resized"}
    /\ outGraph' = createDFSLayout(dfsNodes, connections, viewport)
    /\ pc' = "redrawn"
    /\ UNCHANGED <<viewport, dfsVars, layoutFrame>>

NextLayout == Reveal \/ HandleResize \/ Redraw

SpecLayout == InitLayout /\ [][NextLayout]_vars

Coordinates(graph) ==
    [k \in 1..Len(graph.nodes) |-> <<graph.nodes[k].x, graph.nodes[k].y>>]

\* the same (element, depth, parent) sequence under the ids of another clock
Reidentified(nodes, clock) ==
    [k \in 1..Len(nodes) |->
        [element |-> nodes[k].element, depth |-> nodes[k].depth,
         parent |-> nodes[k].parent,
         id |-> MakeId(nodes[k].element, nodes[k].depth, k + clock)]]

\* C20: the DFS layout is deterministic and idempotent: whenever the nodes
\* have been drawn, by a reveal, a resize or a repeated draw, the x and y of
\* every node are those createDFSLayout gives for the same ordered sequence
\* of (element, depth, parent) and the same viewport size under any ids.
C20_LayoutDeterministic ==
    pc # "input" =>
        \A clock \in LayoutClocks :
            Coordinates(createDFSLayout(Reidentified(dfsNodes, clock), <<>>,
                                        viewport))
                = Coordinates(outGraph)

\* a recipe of four nodes, three of them at depth 1, revealed under the
\* later clock and drawn a second time in the narrow container
C20_Witness ==
    /\ pc = "redrawn"
    /\ viewport.width = 180
    /\ Len(dfsNodes) = 4
    /\ dfsNodes[1].id[3] = 11
    /\ Len(DepthNodes(dfsNodes, 1)) = 3
    /\ outGraph.nodes[2].x # outGraph.nodes[3].x
---------------------------------------------------------------------------
(* Specification of buildFlowData: the nodes and edges of a full recipe    *)
(* tree.  Math.random() is a choice among RandomDraws, in hundredths.      *)

FLOW_WIDTH == 400         \* Math.random() * 400
FLOW_ROW == 80            \* idCounter * 80

MaxFlowNodes == 3

RandomDraws == {0, 50}

RECURSIVE flowTraverse(_, _, _, _), flowChildren(_, _, _, _, _)
\* traverse(node, parentId); acc holds nodes, edges and idCounter, and draws
\* gives the value of the k-th call of Math.random()
flowTraverse(node, parentId, draws, acc) ==
    LET id        == ToString(acc.idCounter)
        idCounter == acc.idCounter + 1
        flowNode  == [id |-> id, label |-> node.element,
                      x |-> (draws[idCounter] * FLOW_WIDTH) \div 100,
                      y |-> idCounter * FLOW_ROW]
        edges     == IF Truthy(parentId)
                     THEN Append(acc.edges,
                                 [id |-> "e" \o parentId \o "-" \o id,
                                  source |-> parentId, target |-> id])
                     ELSE acc.edges
    IN  flowChildren(node.recipes, 1, id, draws,
                     [nodes |-> Append(acc.nodes, flowNode), edges |-> edges,
                      idCounter |-> idCounter])
\* node.recipes?.forEach((child) => traverse(child, id))
flowChildren(kids, i, id, draws, acc) ==
    IF i > Len(kids) THEN acc
    ELSE flowChildren(kids, i + 1, id, draws,
                      flowTraverse(kids[i], id, draws, acc))

buildFlowData(root, draws) ==
    LET r == flowTraverse(root, Null, draws,
                          [nodes |-> <<>>, edges |-> <<>>, idCounter |-> 0])
    IN  [nodes |-> r.nodes, links |-> r.edges]

InitFlow ==
    /\ pc = "input"
    /\ inTree \in Trees(TreeElems, MaxFlowNodes)
    /\ inTarget = ""
    /\ outRecipes = <<>> /\ outTrace = EmptyTrace /\ outState = Absent
    /\ outGraph = NoGraph /\ viewport = Unmeasured
    /\ PureIdle

\* one call buildFlowData(root), the first one or a later one
BuildFlow ==
    /\ pc \in {"input", "built"}
    /\ \E draws \in [1..MaxFlowNodes -> RandomDraws] :
          outGraph' = buildFlowData(inTree, draws)
    /\ pc' = "built"
    /\ UNCHANGED <<inTree, inTarget, outRecipes, outTrace, outState,
                   viewport, pageVars>>

NextFlow == BuildFlow

SpecFlow == InitFlow /\ [][NextFlow]_vars

Positions(graph) ==
    [k \in 1..Len(graph.nodes) |-> <<graph.nodes[k].x, graph.nodes[k].y>>]

\* C21: the positions of the nodes of a full recipe tree do not rely on
\* randomized placement: building the positions again from the same tree
\* gives every node the coordinates it had.
C21_FlowPositionsRepeat ==
    [][pc = "built" => Positions(outGraph') = Positions(outGraph)]_vars
---------------------------------------------------------------------------
(* StandardTreePage                                                        *)

StdTargets == {"Mud", "Wood"}

StdMessages ==
    { [type |-> "progress", element |-> e, path |-> Some(Recipe1),
       nodeCount |-> 1] : e \in {"Mud", "Clay"} }
    \cup { [type |-> "result", element |-> "", path |-> pth, nodeCount |-> 2]
             : pth \in { Some(Recipe1), Some(RecipeList(<<Recipe1, Recipe2>>)),
                         Some(RecipeList(<<>>)) } }
    \cup { [type |-> "error", element |-> "", nodeCount |-> 0,
            path |-> Some([error |-> "Element not found"])] }

\* the state of the other pages
stdFrame ==
    <<pureVars, dfsVars, forwardElements, backwardElements, meetingPoints,
      elementConnections, currentRecipeData, hasBidirectionalData>>

\* the socket of a session, with the processingElements its handlers close
\* over: the list of the render that ran the effect
StdSocket(t, md, idx, elements) ==
    ("seen" :> elements) @@ NewSocket(t, md, idx)

\* the body of the effect: reset, then a new socket
StdEffect(t, md, socks) ==
    /\ treeData' = Absent
    /\ multipleRecipes' = <<>>
    /\ currentRecipeIndex' = 0
    /\ processingElements' = <<t>>
    /\ loading' = TRUE
    /\ status' = "Searching for " \o t \o "..."
    /\ progress' = 0
    /\ resultText' = <<"Searching...">>
    /\ sockets' = Append(socks, StdSocket(t, md, currentRecipeIndex,
                                          processingElements))
    /\ socketRef' = Len(socks) + 1

\* the effect runs after the page is mounted
StdMount ==
    /\ Len(sockets) = 0
    /\ StdEffect(targetElement, mode, sockets)
    /\ UNCHANGED <<stdFrame, propVars, timers, stats>>

\* targetElement, algorithm, mode or limit changes: cleanup, then the effect
StdNewSearch ==
    /\ Len(sockets) \in 1..(MaxSessions - 1)
    /\ \E t \in StdTargets, md \in Modes :
          /\ targetElement' = t
          /\ mode' = md
          /\ StdEffect(t, md, CleanupSockets(sockets, socketRef))
    /\ UNCHANGED <<stdFrame, timers, stats>>

\* socket.onopen
StdOnOpen ==
    \E s \in 1..Len(sockets) :
        /\ sockets[s].readyState = "CONNECTING"
        /\ status' = "Connected to server. Starting search..."
        /\ sockets' = [sockets EXCEPT ![s].readyState = "OPEN",
                                      ![s].sent = @ + 1]
        /\ UNCHANGED <<stdFrame, stdVars, propVars, socketRef, timers,
                       loading, progress, resultText, stats, multipleRecipes,
                       currentRecipeIndex>>

\* socket.onerror; the close event follows
StdOnError ==
    \E s \in 1..Len(sockets) :
        /\ sockets[s].readyState \in {"CONNECTING", "OPEN"}
        /\ status' = "Error connecting to server."
        /\ loading' = FALSE
        /\ sockets' = [sockets EXCEPT ![s].readyState = "CLOSING"]
        /\ UNCHANGED <<stdFrame, stdVars, propVars, socketRef, timers,
                       progress, resultText, stats, multipleRecipes,
                       currentRecipeIndex>>

\* socket.onclose
StdOnClose ==
    \E s \in 1..Len(sockets) :
        /\ sockets[s].readyState \in {"OPEN", "CLOSING"}
        /\ status' = "Disconnected from server."
        /\ loading' = FALSE
        /\ sockets' = [sockets EXCEPT ![s].readyState = "CLOSED"]
        /\ UNCHANGED <<stdFrame, stdVars, propVars, socketRef, timers,
                       progress, resultText, stats, multipleRecipes,
                       currentRecipeIndex>>

\* socket.onmessage, data.type === "error"
StdOnErrorMessage(s, msg) ==
    /\ msg.type = "error"
    /\ status' = "Error: " \o Get(msg.path).error
    /\ loading' = FALSE
    /\ sockets' = Receive(s, msg)
    /\ UNCHANGED <<stdFrame, stdVars, propVars, socketRef, timers, progress,
                   resultText, stats, multipleRecipes, currentRecipeIndex>>

\* processingElements.includes(data.element)
ElementsInclude(elements, element) == element \in Range(elements)

\* socket.onmessage, data.type === "progress"
StdOnProgress(s, msg) ==
    /\ msg.type = "progress"
    /\ progress' = msg.nodeCount
    /\ status' = "Processing... Examining element: " \o msg.element
    /\ stats' = StatsOf(msg)
    /\ processingElements' =
          IF ElementsInclude(sockets[s].seen, msg.element)
          THEN processingElements
          ELSE Append(processingElements, msg.element)
    /\ treeData' = msg.path
    /\ resultText' = <<"JSON", msg.path>>
    /\ sockets' = Receive(s, msg)
    /\ UNCHANGED <<stdFrame, propVars, socketRef, timers, loading,
                   multipleRecipes, currentRecipeIndex>>

\* (data.path as any).recipeCount || 0 of a recipe list whose count is the
\* length of its list; a recipe tree carries no count
RecipeCountOf(path) ==
    IF path.element = Undefined THEN Len(path.recipes) ELSE 0

\* socket.onmessage, data.type === "result"
StdOnResult(s, msg) ==
    LET path == Get(msg.path)
        md   == sockets[s].mode
    IN
    /\ msg.type = "result"
    /\ loading' = FALSE
    /\ status' = "Search completed. Found "
                    \o ToString(IF md = "multiple" THEN RecipeCountOf(path)
                                ELSE 1)
                    \o " recipe(s)."
    /\ stats' = StatsOf(msg)
    /\ processingElements' = <<>>
    /\ IF md = "multiple"
       THEN /\ multipleRecipes' = path.recipes
            /\ treeData' = IF Len(path.recipes) > 0
                           THEN Some(path.recipes[1]) ELSE Absent
       ELSE /\ treeData' = msg.path
            /\ UNCHANGED multipleRecipes
    /\ resultText' = <<"JSON", msg.path>>
    /\ sockets' = Receive(s, msg)
    /\ UNCHANGED <<stdFrame, propVars, socketRef, timers, progress,
                   currentRecipeIndex>>

\* socket.onmessage of the socket of session s
StdOnMessage ==
    \E s \in 1..Len(sockets), msg \in StdMessages :
        /\ sockets[s].readyState = "OPEN"
        /\ Len(sockets[s].log) < MaxMessages
        /\ \/ StdOnErrorMessage(s, msg)
           \/ StdOnProgress(s, msg)
           \/ StdOnResult(s, msg)

\* handlePreviousRecipe / handleNextRecipe with newIndex
StdNavigate(newIndex) ==
    /\ currentRecipeIndex' = newIndex
    /\ treeData' = Some(multipleRecipes[newIndex + 1])
    /\ UNCHANGED <<stdFrame, propVars, netVars, uiVars, multipleRecipes,
                   processingElements>>

StdHandlePreviousRecipe ==
    /\ Len(multipleRecipes) > 0 /\ currentRecipeIndex > 0
    /\ StdNavigate(currentRecipeIndex - 1)

StdHandleNextRecipe ==
    /\ Len(multipleRecipes) > 0
    /\ currentRecipeIndex < Len(multipleRecipes) - 1
    /\ StdNavigate(currentRecipeIndex + 1)

InitStandard ==
    /\ pageIdle
    /\ targetElement \in StdTargets /\ mode \in Modes
    /\ UiIdle /\ BidirIdle /\ DfsIdle /\ StdIdle

NextStandard ==
    \/ StdMount \/ StdNewSearch
    \/ StdOnOpen \/ StdOnError \/ StdOnClose \/ StdOnMessage
    \/ StdHandlePreviousRecipe \/ StdHandleNextRecipe

SpecStandard == InitStandard /\ [][NextStandard]_vars

\* an error event, a close event or an error message of some session
FailureEvent ==
    \E s \in 1..Len(sockets) :
        /\ s <= Len(sockets')
        /\ \/ /\ sockets'[s].readyState \in {"CLOSING", "CLOSED"}
              /\ sockets'[s].readyState # sockets[s].readyState
              /\ status' \in {"Error connecting to server.",
                              "Disconnected from server."}
           \/ sockets'[s].log = Append(sockets[s].log, "error")

\* C22: a session has one socket and sends one search request, on the open
\* event and before any message is handled: a socket that is connecting has
\* sent nothing, an open socket and a socket that has received a message
\* have sent exactly one request, and no socket ever sends more; a socket is
\* created only by the effect of a search, one per run; and an error event,
\* a close event or an error message creates no socket and sends no request.
C22_OneSocketOneRequest ==
    /\ [](\A s \in 1..Len(sockets) :
            /\ sockets[s].sent <= 1
            /\ sockets[s].readyState = "CONNECTING" => sockets[s].sent = 0
            /\ sockets[s].readyState = "OPEN" => sockets[s].sent = 1
            /\ sockets[s].log # <<>> => sockets[s].sent = 1)
    /\ [][/\ Len(sockets') # Len(sockets) =>
                /\ Len(sockets') = Len(sockets) + 1
                /\ socketRef' = Len(sockets')
                /\ status' = "Searching for " \o targetElement' \o "..."
          /\ FailureEvent =>
                /\ Len(sockets') = Len(sockets)
                /\ \A s \in 1..Len(sockets) :
                      sockets'[s].sent = sockets[s].sent]_vars

\* the only session has sent its request, received an error message and
\* been closed, and no second socket exists
C22_Witness ==
    /\ Len(sockets) = 1
    /\ sockets[1].sent = 1
    /\ sockets[1].log = <<"error">>
    /\ sockets[1].readyState = "CLOSED"
    /\ treeData = Absent /\ processingElements # <<>>

---------------------------------------------------------------------------
(* Specification of the bidirectional page searched for a base element     *)

SeedTargets == {"Water", "Mud"}

InitSeed ==
    /\ pageIdle
    /\ targetElement \in SeedTargets /\ mode = "multiple"
    /\ UiIdle /\ BidirIdle /\ DfsIdle /\ StdIdle

\* targetElement changes: cleanup, then the effect again
SeedNewSearch ==
    /\ Len(sockets) \in 1..(MaxSessions - 1)
    /\ \E t \in SeedTargets :
          /\ targetElement' = t
          /\ BidirEffect(t, mode, CleanupSockets(sockets, socketRef))
    /\ UNCHANGED <<pureVars, stdVars, mode, timers, dfsVars>>

NextSeed ==
    \/ BidirMount \/ SeedNewSearch
    \/ BidirOnOpen \/ BidirOnMessage \/ BidirTimer
    \/ BidirHandlePreviousRecipe \/ BidirHandleNextRecipe

SpecSeed == InitSeed /\ [][NextSeed]_vars

\* C23: meeting = forward \cap backward in every reachable state of the
\* bidirectional page: in the initial state, after the reset of a new search
\* and after the reset of a recipe navigation, for every target, a base
\* element included.
C23_MeetingIsIntersection ==
    meetingPoints = forwardElements \cap backwardElements

RECURSIVE PreOrder(_, _, _), PreOrderOfChildren(_, _, _, _)
\* the (element, depth, parent) of every node of a tree, a node before its
\* ingredients and the ingredients in their given order
PreOrder(node, depth, parent) ==
    <<[element |-> node.element, depth |-> depth, parent |-> parent]>>
        \o PreOrderOfChildren(node.recipes, 1, depth + 1, node.element)
PreOrderOfChildren(kids, i, depth, parent) ==
    IF i > Len(kids) THEN <<>>
    ELSE PreOrder(kids[i], depth, parent)
             \o PreOrderOfChildren(kids, i + 1, depth, parent)

RECURSIVE IsSubsequence(_, _)
\* s is t with some entries left out
IsSubsequence(s, t) ==
    IF Len(s) = 0 THEN TRUE
    ELSE IF Len(t) = 0 THEN FALSE
    ELSE IF Head(s) = Head(t)
         THEN IsSubsequence(Tail(s), Tail(t)) \/ IsSubsequence(s, Tail(t))
         ELSE IsSubsequence(s, Tail(t))

TraceKeys(nodes) ==
    [k \in 1..Len(nodes) |->
        [element |-> nodes[k].element, depth |-> nodes[k].depth,
         parent |-> nodes[k].parent]]

\* C24: the node sequence of traverseDFS is in pre-order: it is the pre-order
\* listing of the tree with some nodes left out; its first node is the root
\* with depth 0 and parent null; every other node has the parent element and
\* depth + 1 of a node emitted before it.
C24_TraceIsPreOrder ==
    pc = "traced" =>
        LET ns == outTrace.nodes IN
        /\ Len(ns) > 0
        /\ TraceKeys(ns)[1] =
              [element |-> inTree.element, depth |-> 0, parent |-> Null]
        /\ IsSubsequence(TraceKeys(ns), PreOrder(inTree, 0, Null))
        /\ \A k \in 2..Len(ns) :
              \E j \in 1..(k - 1) :
                  /\ ns[j].element = ns[k].parent
                  /\ ns[j].depth + 1 = ns[k].depth

\* a trace of a tree with two different ingredients, the first of which has
\* an ingredient of its own, and one node left out as a duplicate
C24_Witness ==
    /\ pc = "traced"
    /\ Len(inTree.recipes) = 2
    /\ inTree.recipes[1].element # inTree.recipes[2].element
    /\ Len(inTree.recipes[1].recipes) = 1
    /\ Len(outTrace.nodes) = 4
    /\ Len(PreOrder(inTree, 0, Null)) = 5
    /\ outTrace.nodes[3].depth = 2

RECURSIVE PostOrderRecipes(_), PostOrderOfChildren(_, _)
\* one entry per node that has ingredients, the entries of the ingredients
\* before the entry of the node
PostOrderRecipes(node) ==
    IF Len(node.recipes) = 0 THEN <<>>
    ELSE Append(PostOrderOfChildren(node.recipes, 1),
                [result |-> node.element,
                 ingredients |-> [i \in 1..Len(node.recipes) |->
                                     node.recipes[i].element]])
PostOrderOfChildren(kids, i) ==
    IF i > Len(kids) THEN <<>>
    ELSE PostOrderRecipes(kids[i]) \o PostOrderOfChildren(kids, i + 1)

RECURSIVE KeepFirstResults(_, _)
\* the entries of a list whose result no earlier entry has, from entry k on
KeepFirstResults(entries, k) ==
    IF k > Len(entries) THEN <<>>
    ELSE (IF \E j \in 1..(k - 1) : entries[j].result = entries[k].result
          THEN <<>> ELSE <<entries[k]>>)
             \o KeepFirstResults(entries, k + 1)

\* C25: extractRecipes emits an entry only for nodes with at least one
\* ingredient (a leaf root gives the empty list), the ingredients of an entry
\* are the elements of the node's children in their order, and of several
\* non-leaf occurrences of an element the one that completes first in
\* post-order is kept: the list is the post-order listing of the non-leaf
\* nodes with the later entries of a repeated result left out.
C25_ExtractedEntries ==
    pc = "extracted" =>
        /\ Len(inTree.recipes) = 0 => outRecipes = <<>>
        /\ outRecipes = KeepFirstResults(PostOrderRecipes(inTree), 1)

\* an element is a non-leaf node twice with different ingredient lists, and
\* the list holds the entry of the occurrence that completes first
C25_Witness ==
    /\ pc = "extracted"
    /\ LET po == PostOrderRecipes(inTree) IN
       \E j, k \in 1..Len(po) :
           /\ j < k
           /\ po[j].result = po[k].result
           /\ po[j].ingredients # po[k].ingredients
           /\ Len(po[j].ingredients) = 2
           /\ \E r \in 1..Len(outRecipes) : outRecipes[r] = po[j]

IncomingOf(id) == { i \in 1..Len(connections) : connections[i].child = id }

\* C26: when the trace of one recipe tree has been revealed without
\* interruption, the connections form a tree over the DFS nodes: no (parent
\* id, child id) pair occurs twice, both ids of every connection are ids of
\* nodes of the list, the root has no incoming connection, and every other
\* node has exactly one, from the node whose element is the child's parent
\* field and whose depth is the child's depth minus 1.
C26_ConnectionsFormTree ==
    pc # "input" =>
        /\ \A i, j \in 1..Len(connections) :
              connections[i] = connections[j] => i = j
        /\ \A i \in 1..Len(connections) :
              /\ \E n \in 1..Len(dfsNodes) :
                    dfsNodes[n].id = connections[i].parent
              /\ \E n \in 1..Len(dfsNodes) :
                    dfsNodes[n].id = connections[i].child
        /\ \A k \in 1..Len(dfsNodes) :
              IF dfsNodes[k].parent = Null
              THEN IncomingOf(dfsNodes[k].id) = {}
              ELSE /\ Cardinality(IncomingOf(dfsNodes[k].id)) = 1
                   /\ \A i \in IncomingOf(dfsNodes[k].id) :
                         \E p \in 1..Len(dfsNodes) :
                             /\ dfsNodes[p].id = connections[i].parent
                             /\ dfsNodes[p].element = dfsNodes[k].parent
                             /\ dfsNodes[p].depth = dfsNodes[k].depth - 1

\* a revealed recipe of four nodes on three levels in which the element of
\* the root occurs again below it
C26_Witness ==
    /\ pc = "revealed"
    /\ Len(dfsNodes) = 4 /\ Len(connections) = 3
    /\ \E k \in 1..Len(dfsNodes) : dfsNodes[k].depth = 2
    /\ \E k \in 2..Len(dfsNodes) : dfsNodes[k].element = dfsNodes[1].element

\* the statuses that report a failed session
IsFailureStatus(text) ==
    text \in {"Error connecting to server.", "Disconnected from server.",
              "Error processing server message.",
              "Error: Element not found"}

\* C27: once the only session of the page has been marked failed, by an
\* error message or by a socket error event, the status stays a failure
\* status until the next search starts: no later event of the session, a
\* close event included, replaces it with another status.
C27_FailureStatusSticks ==
    [][(/\ Len(sockets) = 1 /\ Len(sockets') = 1
        /\ IsFailureStatus(status))
          => IsFailureStatus(status')]_vars

\* the messages of a session end with its only result, if it has one
ResultComesLast(log) ==
    /\ ResultsIn(log) <= 1
    /\ \A k \in 1..Len(log) :
          log[k] = "result" => \A j \in (k + 1)..Len(log) : log[j] = "error"

\* the only session of the page has received at most one result message and
\* no progress message after it
OneAnswer == Len(sockets) = 1 /\ ResultComesLast(sockets[1].log)

\* the standard page: the index is within the recipe list (0 while the list
\* is empty) and the tree shown is the list entry at the index
StdIndexWithinRecipeList ==
    OneAnswer =>
        /\ Len(multipleRecipes) = 0 => currentRecipeIndex = 0
        /\ Len(multipleRecipes) > 0 =>
              /\ currentRecipeIndex <= Len(multipleRecipes) - 1
              /\ treeData = Some(multipleRecipes[currentRecipeIndex + 1])

\* the DFS page: the same for multipleResults and currentRecipe
DfsIndexWithinRecipeList ==
    OneAnswer =>
        /\ Len(multipleResults) = 0 => currentResultIndex = 0
        /\ Len(multipleResults) > 0 =>
              /\ currentResultIndex <= Len(multipleResults) - 1
              /\ currentRecipe = Some(multipleResults[currentResultIndex + 1])

\* C28: in the only session of the bidirectional page, which receives at
\* most one result message and no progress message after it, whatever
\* previous and next clicks have been made the current recipe index is
\* within 0 .. length - 1 of the recipe list (0 while the list is empty) and
\* the recipe shown is the list entry at the current index.
C28_IndexWithinRecipeList ==
    OneAnswer =>
        /\ Len(multipleRecipes) = 0 => currentRecipeIndex = 0
        /\ Len(multipleRecipes) > 0 =>
              /\ currentRecipeIndex <= Len(multipleRecipes) - 1
              /\ currentRecipeData =
                    Some(multipleRecipes[currentRecipeIndex + 1])

\* C29: in the standard page a progress message adds its element to the
\* processing elements only if the list, as it currently is, does not hold
\* it: after any sequence of progress messages the list holds each element
\* at most once.
C29_NoDuplicateProcessingElement ==
    \A i, j \in 1..Len(processingElements) :
        processingElements[i] = processingElements[j] => i = j

---------------------------------------------------------------------------
(* traverseDFS on trees in which an (element, depth) comes back below a    *)
(* node that the traversal has skipped                                     *)

MaxRevisitNodes == 6

RevisitElems == {"Mud", "Clay"}

InitRevisit ==
    /\ pc = "input"
    /\ inTree \in Trees(RevisitElems, MaxRevisitNodes)
    /\ inTarget = ""
    /\ outRecipes = <<>> /\ outTrace = EmptyTrace /\ outState = Absent
    /\ outGraph = NoGraph /\ viewport = Unmeasured
    /\ PureIdle

NextRevisit == Trace

SpecRevisit == InitRevisit /\ [][NextRevisit]_vars

RECURSIVE Occurrences(_, _, _, _, _), OccurrencesOfChildren(_, _, _, _, _, _)
\* the nodes of a tree in pre-order, each with its element, depth, parent
\* element and the place of its parent node in the listing (0 for the root);
\* base is the number of nodes listed before this one
Occurrences(node, depth, parent, up, base) ==
    <<[element |-> node.element, depth |-> depth, parent |-> parent,
       up |-> up]>>
        \o OccurrencesOfChildren(node.recipes, 1, depth + 1, node.element,
                                 base + 1, base + 1)
OccurrencesOfChildren(kids, i, depth, parent, up, base) ==
    IF i > Len(kids) THEN <<>>
    ELSE LET first == Occurrences(kids[i], depth, parent, up, base)
         IN  first \o OccurrencesOfChildren(kids, i + 1, depth, parent, up,
                                            base + Len(first))

OccurrencesOf(tree) == Occurrences(tree, 0, Null, 0, 0)

SameElementDepth(occ, i, j) ==
    occ[i].element = occ[j].element /\ occ[i].depth = occ[j].depth

\* no node before i in the pre-order of the tree has its (element, depth)
IsFirstInTree(occ, i) ==
    \A j \in 1..(i - 1) : ~SameElementDepth(occ, i, j)

RECURSIVE IsBelowFirsts(_, _)
\* every node above i is the first of its (element, depth) in the tree
IsBelowFirsts(occ, i) ==
    occ[i].up = 0
    \/ (IsFirstInTree(occ, occ[i].up) /\ IsBelowFirsts(occ, occ[i].up))

RECURSIVE IsReached(_, _), IsKept(_, _)
\* the traversal comes to node i: it is the root, or an ingredient of a node
\* whose ingredients are traversed
IsReached(occ, i) == occ[i].up = 0 \/ IsKept(occ, occ[i].up)
\* node i is the first node the traversal comes to with its (element, depth)
IsKept(occ, i) ==
    /\ IsReached(occ, i)
    /\ \A j \in 1..(i - 1) : SameElementDepth(occ, i, j) => ~IsReached(occ, j)

OccurrenceKeys(occ) ==
    [k \in 1..Len(occ) |->
        [element |-> occ[k].element, depth |-> occ[k].depth,
         parent |-> occ[k].parent]]

\* C30 as stated: the ingredients of a node are traversed if and only if the
\* node is the first pre-order occurrence of its (element, depth) in the
\* tree, so the trace is the pre-order listing of the nodes that are such a
\* first occurrence and lie below such first occurrences only.
C30_TraversedIffFirstInTree ==
    pc = "traced" =>
        LET occ == OccurrencesOf(inTree) IN
        TraceKeys(outTrace.nodes) =
            SeqFilterIdx(OccurrenceKeys(occ),
                         { i \in 1..Len(occ) :
                             IsFirstInTree(occ, i) /\ IsBelowFirsts(occ, i) },
                         1)

\* C30 amended: the ingredients of a node are traversed if and only if the
\* node is the first occurrence of its (element, depth) among the nodes the
\* traversal comes to. The trace is the pre-order listing of exactly those
\* nodes; a node the traversal comes to adds its parent to the parent set of
\* its (element, depth) and a node below a skipped one adds nothing; an
\* element that the traversal never comes to has no DFSNode. The visited
\* set plays no part: the (element, depth) rule alone decides.
C30_TraversedIffFirstReached ==
    pc = "traced" =>
        LET occ     == OccurrencesOf(inTree)
            reached == { i \in 1..Len(occ) : IsReached(occ, i) }
        IN
        /\ TraceKeys(outTrace.nodes) =
              SeqFilterIdx(OccurrenceKeys(occ),
                           { i \in 1..Len(occ) : IsKept(occ, i) }, 1)
        /\ DOMAIN outTrace.tracker =
              { elementKey(occ[i].element, occ[i].depth) : i \in reached }
        /\ \A i \in reached :
              outTrace.tracker[elementKey(occ[i].element, occ[i].depth)].parents
                  = { occ[j].parent :
                        j \in { r \in reached :
                                  /\ SameElementDepth(occ, i, r)
                                  /\ Truthy(occ[r].parent) } }
        /\ \A e \in RevisitElems :
              (\A i \in 1..Len(occ) : occ[i].element = e => i \notin reached)
                  => \A k \in 1..Len(outTrace.nodes) :
                         outTrace.nodes[k].element # e

\* a trace of a tree in which a skipped node has an ingredient, and a later
\* node with the (element, depth) of that ingredient is the first one that
\* the traversal comes to
C30_Witness ==
    /\ pc = "traced"
    /\ LET occ == OccurrencesOf(inTree) IN
       \E s, j, k \in 1..Len(occ) :
          /\ IsReached(occ, s) /\ ~IsKept(occ, s)
          /\ occ[j].up = s
          /\ j < k
          /\ SameElementDepth(occ, j, k)
          /\ IsKept(occ, k)
          /\ \E n \in 1..Len(outTrace.nodes) :
                /\ outTrace.nodes[n].element = occ[k].element
                /\ outTrace.nodes[n].depth = occ[k].depth
                /\ outTrace.nodes[n].parent = occ[k].parent

=============================================================================
